---- MODULE Spec2Model ----
(***************************************************************************)
(* HostFlow STR engine: the analytics and reconciliation functions of      *)
(* src/str_logic.py and the booking / iCal-import handlers of src/app.py.  *)
(*                                                                         *)
(* Conventions                                                             *)
(*   - a date is its proleptic Gregorian ordinal (datetime.date.toordinal) *)
(*   - a date STRING is a record [fmt, d]: the format it is written in and *)
(*     the day it denotes, so that parsing and isoformat() are not the     *)
(*     identity and a key built from strings is a key of strings           *)
(*   - free text (SUMMARY, guest names) is a sequence of 1-character       *)
(*     strings, so that lower(), strip(), `in` and split() are computed    *)
(*   - money is an integer number of mills (1/1000 dollar), so that a      *)
(*     cent and a fraction of a cent are both representable; hours are     *)
(*     thousandths of an hour; percentages are tenths of a percent         *)
(*   - arithmetic is exact and round(x, n) is Python's documented          *)
(*     round-half-even; where binary floating point can round an exact tie *)
(*     either way, the properties below accept both roundings              *)
(***************************************************************************)
EXTENDS Integers, Sequences, FiniteSets, TLC

VARIABLES
    bookings,   \* st.session_state.bookings, or the `bookings` argument
    today,      \* date.today()
    op,         \* the operation that produced `result`
    args,       \* the other inputs of the operation
    result      \* what the operation returned

vars == <<bookings, today, op, args, result>>

NoResult == [none |-> TRUE]

-----------------------------------------------------------------------------
(* Generic helpers                                                          *)

Max(a, b) == IF a >= b THEN a ELSE b
Min(a, b) == IF a <= b THEN a ELSE b

RECURSIVE SumSeq(_)
SumSeq(s) == IF s = <<>> THEN 0 ELSE Head(s) + SumSeq(Tail(s))

RECURSIVE SelectSeqIdx(_, _)
\* indices of s (ascending) that are in the set keep
SelectSeqIdx(s, keep) ==
    IF s = <<>> THEN <<>>
    ELSE LET n == Len(s)
             front == SelectSeqIdx(SubSeq(s, 1, n - 1), keep)
         IN IF n \in keep THEN Append(front, s[n]) ELSE front

\* a float kept exactly, as the fraction num/den; 0.0
Zero == [num |-> 0, den |-> 1]

RemoveAt(s, i) == SubSeq(s, 1, i - 1) \o SubSeq(s, i + 1, Len(s))

\* Python round(): nearest, ties to even.  num/den with den > 0.
RoundHalfEven(num, den) ==
    LET q == num \div den
        r == num % den
    IN IF 2 * r < den THEN q
       ELSE IF 2 * r > den THEN q + 1
       ELSE IF q % 2 = 0 THEN q ELSE q + 1

\* round(x, 2) of an amount of num/den mills: a whole number of cents, in mills
\* (one cent is 10 mills)
Round2(num, den) == RoundHalfEven(num, den * 10) * 10

-----------------------------------------------------------------------------
(* datetime.date                                                            *)

IsLeap(y) == (y % 4 = 0) /\ ((y % 100 # 0) \/ (y % 400 = 0))

DaysBeforeYear(y) ==
    LET p == y - 1 IN p * 365 + (p \div 4) - (p \div 100) + (p \div 400)

DaysInMonth(y, m) ==
    IF m = 2 THEN (IF IsLeap(y) THEN 29 ELSE 28)
    ELSE IF m \in {4, 6, 9, 11} THEN 30 ELSE 31

RECURSIVE DaysBeforeMonth(_, _)
DaysBeforeMonth(y, m) ==
    IF m = 1 THEN 0 ELSE DaysBeforeMonth(y, m - 1) + DaysInMonth(y, m - 1)

\* date(y, m, d)
Date(y, m, d) == DaysBeforeYear(y) + DaysBeforeMonth(y, m) + d

Years == 2024 .. 2028
YearOf(n) == CHOOSE y \in Years : Date(y, 1, 1) <= n /\ n < Date(y + 1, 1, 1)
MonthOf(n) ==
    LET y == YearOf(n)
    IN CHOOSE m \in 1 .. 12 :
          /\ Date(y, m, 1) <= n
          /\ n < Date(y, m, 1) + DaysInMonth(y, m)
DayOf(n) == n - Date(YearOf(n), MonthOf(n), 1) + 1

\* None, for a date that did not parse
NoDate == 0 - 1

(* Date strings.  fmt is the layout of the text:                           *)
(*   "iso" %Y-%m-%d   "us" %m/%d/%Y   "usdash" %m-%d-%Y                    *)
(*   "compact" %Y%m%d   "stamp" %Y%m%dT%H%M%S                               *)
(*   "compactZ", "stampZ" the same followed by Z                           *)
(*   "empty" the empty string   "junk" any other text                      *)
DateStr(fmt, d) == [fmt |-> fmt, d |-> d]
EmptyStr == DateStr("empty", 0)
JunkStr == DateStr("junk", 0)

isoformat(d) == DateStr("iso", d)

_parse_date(ds) ==
    IF ds.fmt \in {"iso", "us", "usdash"} THEN ds.d ELSE NoDate

_parse_ical_date(dt_str) ==
    IF dt_str.fmt = "empty" THEN NoDate
    ELSE LET stripped == IF dt_str.fmt = "stampZ" THEN "stamp"
                         ELSE IF dt_str.fmt = "compactZ" THEN "compact"
                         ELSE dt_str.fmt
         IN IF stripped \in {"compact", "stamp"} THEN dt_str.d ELSE NoDate

-----------------------------------------------------------------------------
(* Text                                                                     *)


LowerTable ==
    ("A" :> "a") @@ ("B" :> "b") @@ ("C" :> "c") @@ ("D" :> "d") @@ ("E" :> "e") @@ ("F" :> "f") @@
    ("G" :> "g") @@ ("H" :> "h") @@ ("I" :> "i") @@ ("J" :> "j") @@ ("K" :> "k") @@ ("L" :> "l") @@
    ("M" :> "m") @@ ("N" :> "n") @@ ("O" :> "o") @@ ("P" :> "p") @@ ("Q" :> "q") @@ ("R" :> "r") @@
    ("S" :> "s") @@ ("T" :> "t") @@ ("U" :> "u") @@ ("V" :> "v") @@ ("W" :> "w") @@ ("X" :> "x") @@
    ("Y" :> "y") @@ ("Z" :> "z")

LowerChar(c) == IF c \in DOMAIN LowerTable THEN LowerTable[c] ELSE c

RECURSIVE Lower(_)
\* str.lower()
Lower(s) == IF s = <<>> THEN <<>> ELSE <<LowerChar(Head(s))>> \o Lower(Tail(s))

RECURSIVE Find(_, _, _)
\* s.find(sub) searching from position i: the first position at which sub
\* occurs in s, 0 when there is none
Find(sub, s, i) ==
    IF i + Len(sub) - 1 > Len(s) THEN 0
    ELSE IF s[i] = sub[1] /\ SubSeq(s, i, i + Len(sub) - 1) = sub THEN i
    ELSE Find(sub, s, i + 1)

\* sub in s
Contains(sub, s) == Find(sub, s, 1) # 0

StartsWith(s, prefix) ==
    Len(s) >= Len(prefix) /\ SubSeq(s, 1, Len(prefix)) = prefix

RECURSIVE LStrip(_)
LStrip(s) == IF s # <<>> /\ Head(s) = " " THEN LStrip(Tail(s)) ELSE s

RECURSIVE RStrip(_)
RStrip(s) ==
    IF s # <<>> /\ s[Len(s)] = " " THEN RStrip(SubSeq(s, 1, Len(s) - 1)) ELSE s

\* str.strip()
Strip(s) == RStrip(LStrip(s))

\* s.split(sep, 1) when sep occurs in s: <<before, after>> the first occurrence
Split1(s, sep) ==
    LET at == Find(sep, s, 1)
    IN <<SubSeq(s, 1, at - 1), SubSeq(s, at + Len(sep), Len(s))>>

\* the string literals of parse_ical, _process_ical_event and _extract_guest_name
Lit ==
    [KW_not_available |->
        <<"n", "o", "t", " ", "a", "v", "a", "i", "l", "a", "b", "l", "e">>,
     KW_blocked |-> <<"b", "l", "o", "c", "k", "e", "d">>,
     KW_closed |-> <<"c", "l", "o", "s", "e", "d">>,
     KW_airbnb_not_available |->
        <<"a", "i", "r", "b", "n", "b", " ", "(", "n", "o", "t", " ", "a", "v", "a", "i", "l", "a", "b", "l", "e", ")">>,
     KW_owner_block |-> <<"o", "w", "n", "e", "r", " ", "b", "l", "o", "c", "k">>,
     KW_maintenance |-> <<"m", "a", "i", "n", "t", "e", "n", "a", "n", "c", "e">>,
     KW_unavailable |-> <<"u", "n", "a", "v", "a", "i", "l", "a", "b", "l", "e">>,
     STR_reserved |-> <<"r", "e", "s", "e", "r", "v", "e", "d">>,
     STR_airbnb_reserved |->
        <<"a", "i", "r", "b", "n", "b", " ", "(", "r", "e", "s", "e", "r", "v", "e", "d", ")">>,
     STR_booked |-> <<"b", "o", "o", "k", "e", "d">>,
     STR_vrbo |-> <<"v", "r", "b", "o">>,
     STR_booking_com |-> <<"b", "o", "o", "k", "i", "n", "g", ".", "c", "o", "m">>,
     STR_Airbnb_Guest |->
        <<"A", "i", "r", "b", "n", "b", " ", "G", "u", "e", "s", "t">>,
     STR_Guest_iCal |->
        <<"G", "u", "e", "s", "t", " ", "(", "i", "C", "a", "l", ")">>,
     STR_Guest_suffix |-> <<" ", "G", "u", "e", "s", "t">>,
     STR_dash |-> <<" ", "-", " ">>,
     PFX_Airbnb |-> <<"A", "i", "r", "b", "n", "b", " ">>,
     PFX_VRBO |-> <<"V", "R", "B", "O", " ">>,
     PFX_Booking_com |->
        <<"B", "o", "o", "k", "i", "n", "g", ".", "c", "o", "m", " ">>,
     PLAT_Airbnb |-> <<"A", "i", "r", "b", "n", "b">>,
     PLAT_VRBO |-> <<"V", "R", "B", "O">>,
     STR_VEVENT |-> <<"V", "E", "V", "E", "N", "T">>]

\* the keyword list of _process_ical_event
BlockedKeywords ==
    {Lit.KW_not_available, Lit.KW_blocked, Lit.KW_closed, Lit.KW_airbnb_not_available,
     Lit.KW_owner_block, Lit.KW_maintenance, Lit.KW_unavailable}


StripPrefix(s, prefix) ==
    IF StartsWith(s, prefix) THEN SubSeq(s, Len(prefix) + 1, Len(s)) ELSE s

_extract_guest_name(summary, platform) ==
    IF summary = <<>> THEN Lit.STR_Guest_iCal
    ELSE
    LET s == Strip(summary)
        sl == Lower(s)
        generic == platform \o Lit.STR_Guest_suffix
    IN IF sl = Lit.STR_reserved \/ sl = Lit.STR_airbnb_reserved THEN Lit.STR_Airbnb_Guest
       ELSE IF Contains(Lit.STR_dash, s) THEN
           LET parts == Split1(s, Lit.STR_dash)
               name == Strip(parts[2])
           IN IF Lower(parts[1]) \in {Lit.STR_reserved, Lit.STR_booked, Lit.STR_vrbo, Lit.STR_booking_com}
              THEN (IF name # <<>> /\ Lower(name) \notin {Lit.STR_reserved, Lit.STR_booked}
                    THEN name ELSE generic)
              ELSE (IF name # <<>> THEN name ELSE generic)
       ELSE IF Contains(<<"(">>, s) /\ Strip(Split1(s, <<"(">>)[1]) # <<>>
            THEN Strip(Split1(s, <<"(">>)[1])
       ELSE LET s3 == StripPrefix(StripPrefix(StripPrefix(s, Lit.PFX_Airbnb), Lit.PFX_VRBO),
                                  Lit.PFX_Booking_com)
            IN IF s3 # <<>> THEN s3 ELSE generic

-----------------------------------------------------------------------------
(* 17. Helpers: payout                                                      *)

\* pct = 0.03, in percent
DefaultFeePct == 3

\* (mutant) the fee charged on the nights only
calculate_payout_nights(rate, nights, clean, pct) ==
    LET g == (rate * nights) + clean
        f == (rate * nights) * pct
    IN <<Round2(g * 100 - f, 100), Round2(f, 100)>>

\* calculate_payout(rate, nights, clean, pct): <<payout, platform fee>>.
\* rate and clean in mills, pct in percent (1/100)
calculate_payout(rate, nights, clean, pct) ==
    LET g == (rate * nights) + clean
        f == g * pct                     \* the fee, in 1/100 mills
    IN <<Round2(g * 100 - f, 100), Round2(f, 100)>>

-----------------------------------------------------------------------------
(* 15. iCal import                                                          *)

(* A calendar text is a sequence of physical lines.  A line is             *)
(*   [kind |-> "begin"]  BEGIN:VEVENT        [kind |-> "end"]  END:VEVENT  *)
(*   [kind |-> "prop", key |-> <<base, param, ...>>, val |-> v]  key:val   *)
(*   [kind |-> "text", val |-> chars]        a line with no colon          *)
(*   [kind |-> "cont", crlf |-> b, val |-> chars]  a line that starts with *)
(*        a blank; crlf says whether the line break before it is CRLF      *)
BeginLine == [kind |-> "begin"]
EndLine == [kind |-> "end"]
PropLine(key, val) == [kind |-> "prop", key |-> key, val |-> val]
TextLine(val) == [kind |-> "text", val |-> val]
ContLine(crlf, val) == [kind |-> "cont", crlf |-> crlf, val |-> val]


\* the text of prev followed by the text of a continuation line
JoinLines(prev, c) ==
    IF prev.kind = "prop"
    THEN (IF prev.key[1] \in {"DTSTART", "DTEND"}
          THEN (IF Strip(c.val) = <<>> THEN prev      \* blanks after a date
                ELSE [prev EXCEPT !.val = JunkStr])   \* letters after a date
          ELSE [prev EXCEPT !.val = @ \o c.val])
    ELSE IF prev.kind = "begin" THEN PropLine(<<"BEGIN">>, Lit.STR_VEVENT \o c.val)
    ELSE IF prev.kind = "end" THEN PropLine(<<"END">>, Lit.STR_VEVENT \o c.val)
    ELSE TextLine(prev.val \o c.val)

RECURSIVE Unfold(_)
\* ical_text.replace("\r\n ", "").replace("\r\n\t", "").splitlines(), stripped:
\* a continuation after CRLF joins the line before it, any other stays a line
\* of its own (which, stripped, holds no colon)
Unfold(text) ==
    IF text = <<>> THEN <<>>
    ELSE LET n == Len(text)
             front == Unfold(SubSeq(text, 1, n - 1))
             l == text[n]
         IN IF l.kind # "cont" THEN Append(front, l)
            ELSE IF l.crlf /\ front # <<>>
                 THEN Append(SubSeq(front, 1, Len(front) - 1),
                             JoinLines(front[Len(front)], l))
                 ELSE Append(front, TextLine(Strip(l.val)))

EmptyEvent == [k \in {} |-> <<>>]
\* (mutant) a key that repeats keeps its first value
EventPut_first(event, k, v) ==
    [x \in (DOMAIN event) \cup {k} |-> IF x \in DOMAIN event THEN event[x] ELSE v]

\* event[key_base] = val
EventPut(event, k, v) ==
    [x \in (DOMAIN event) \cup {k} |-> IF x = k THEN v ELSE event[x]]
EventGet(event, k, default) == IF k \in DOMAIN event THEN event[k] ELSE default

is_blocked(summary) ==
    LET summary_lower == Lower(summary)
    IN \E kw \in BlockedKeywords : Contains(kw, summary_lower)

ImportStatus(check_in, check_out, td) ==
    IF check_in > td THEN "confirmed"
    ELSE IF check_out > td THEN "checked_in" ELSE "checked_out"

\* returns NoResult for None
_process_ical_event(event, property_id, platform, default_rate, cleaning_fee, td) ==
    LET summary == EventGet(event, "SUMMARY", <<>>)
        dtstart == EventGet(event, "DTSTART", EmptyStr)
        dtend == EventGet(event, "DTEND", EmptyStr)
        check_in == _parse_ical_date(dtstart)
        check_out == _parse_ical_date(dtend)
    IN IF check_in = NoDate \/ check_out = NoDate THEN NoResult
       ELSE IF is_blocked(summary) THEN
            [_blocked |-> TRUE,
             start |-> isoformat(check_in),
             end |-> isoformat(check_out),
             reason |-> summary,
             property_id |-> property_id]
       ELSE LET num_nights == Max(check_out - check_in, 1)
                pay == calculate_payout(default_rate, num_nights, cleaning_fee,
                                        DefaultFeePct)
            IN [property_id |-> property_id,
                guest_name |-> _extract_guest_name(summary, platform),
                check_in |-> isoformat(check_in),
                check_out |-> isoformat(check_out),
                num_nights |-> num_nights,
                nightly_rate |-> default_rate,
                cleaning_fee |-> cleaning_fee,
                total_payout |-> pay[1],
                platform |-> platform,
                platform_fee |-> pay[2],
                status |-> ImportStatus(check_in, check_out, td),
                turnover_status |-> "pending",
                cleaner_confirmed |-> FALSE]

\* (mutant) an event that cannot be processed ends the batch with nothing
ParseLine_abort(st, line, property_id, platform, default_rate, cleaning_fee, td) ==
    IF line.kind = "begin" THEN
        [st EXCEPT !.in_event = TRUE, !.event = EmptyEvent]
    ELSE IF line.kind = "end" THEN
        LET parsed == IF DOMAIN st.event = {} THEN NoResult
                      ELSE _process_ical_event(st.event, property_id, platform,
                                               default_rate, cleaning_fee, td)
        IN IF parsed = NoResult
           THEN [st EXCEPT !.in_event = FALSE, !.event = EmptyEvent,
                           !.bookings = <<>>, !.blocked = <<>>]
           ELSE IF "_blocked" \in DOMAIN parsed
           THEN [st EXCEPT !.in_event = FALSE, !.event = EmptyEvent,
                           !.blocked = Append(@, parsed)]
           ELSE [st EXCEPT !.in_event = FALSE, !.event = EmptyEvent,
                           !.bookings = Append(@, parsed)]
    ELSE IF st.in_event /\ line.kind = "prop" THEN
        [st EXCEPT !.event = EventPut(@, line.key[1],
                                      IF line.key[1] \in {"DTSTART", "DTEND"}
                                      THEN line.val ELSE RStrip(line.val))]
    ELSE st

\* the loop body of parse_ical: st = [in_event, event, bookings, blocked]
ParseLine(st, line, property_id, platform, default_rate, cleaning_fee, td) ==
    IF line.kind = "begin" THEN
        [st EXCEPT !.in_event = TRUE, !.event = EmptyEvent]
    ELSE IF line.kind = "end" THEN
        LET parsed == IF DOMAIN st.event = {} THEN NoResult
                      ELSE _process_ical_event(st.event, property_id, platform,
                                               default_rate, cleaning_fee, td)
        IN IF parsed = NoResult
           THEN [st EXCEPT !.in_event = FALSE, !.event = EmptyEvent]
           ELSE IF "_blocked" \in DOMAIN parsed
           THEN [st EXCEPT !.in_event = FALSE, !.event = EmptyEvent,
                           !.blocked = Append(@, parsed)]
           ELSE [st EXCEPT !.in_event = FALSE, !.event = EmptyEvent,
                           !.bookings = Append(@, parsed)]
    ELSE IF st.in_event /\ line.kind = "prop" THEN
        [st EXCEPT !.event = EventPut(@, line.key[1],
                                      IF line.key[1] \in {"DTSTART", "DTEND"}
                                      THEN line.val ELSE RStrip(line.val))]
    ELSE st

RECURSIVE ParseLines(_, _, _, _, _, _)
ParseLines(lines, property_id, platform, default_rate, cleaning_fee, td) ==
    IF lines = <<>>
    THEN [in_event |-> FALSE, event |-> EmptyEvent, bookings |-> <<>>, blocked |-> <<>>]
    ELSE ParseLine(ParseLines(SubSeq(lines, 1, Len(lines) - 1), property_id,
                              platform, default_rate, cleaning_fee, td),
                   lines[Len(lines)], property_id, platform, default_rate,
                   cleaning_fee, td)

\* parse_ical: <<bookings, blocked>>
parse_ical(ical_text, property_id, platform, default_rate, cleaning_fee, td) ==
    IF ical_text = <<>> THEN <<(<<>>), (<<>>)>>
    ELSE LET st == ParseLines(Unfold(ical_text), property_id, platform,
                              default_rate, cleaning_fee, td)
         IN <<st.bookings, st.blocked>>

\* (mutant) a typo in the key of the ledger loop: check_in twice
ExistingKey_typo(b) == <<b.property_id, b.check_in, b.check_in>>

\* the key of a ledger booking (first loop) and of a batch booking (second loop)
ExistingKey(b) == <<b.property_id, b.check_in, b.check_out>>
NewKey(b) == <<b.property_id, b.check_in, b.check_out>>

RECURSIVE DedupLoop_noadd(_, _)
\* (mutant) the loop without existing_keys.add(key)
DedupLoop_noadd(existing_keys, new_bookings) ==
    IF new_bookings = <<>>
    THEN [keys |-> existing_keys, unique |-> <<>>, dupes |-> 0]
    ELSE LET n == Len(new_bookings)
             st == DedupLoop_noadd(existing_keys, SubSeq(new_bookings, 1, n - 1))
             b == new_bookings[n]
         IN IF NewKey(b) \notin st.keys
            THEN [st EXCEPT !.unique = Append(@, b)]
            ELSE [st EXCEPT !.dupes = @ + 1]

RECURSIVE DedupLoop(_, _)
\* the second loop of deduplicate_ical_bookings: [keys, unique, dupes]
DedupLoop(existing_keys, new_bookings) ==
    IF new_bookings = <<>>
    THEN [keys |-> existing_keys, unique |-> <<>>, dupes |-> 0]
    ELSE LET n == Len(new_bookings)
             st == DedupLoop(existing_keys, SubSeq(new_bookings, 1, n - 1))
             b == new_bookings[n]
             key == NewKey(b)
         IN IF key \notin st.keys
            THEN [st EXCEPT !.unique = Append(@, b), !.keys = @ \cup {key}]
            ELSE [st EXCEPT !.dupes = @ + 1]

\* (mutant) the keys of the cancelled ledger bookings are left out
deduplicate_ical_bookings_live(existing_bookings, new_bookings) ==
    LET existing_keys == {ExistingKey(existing_bookings[i]) :
                              i \in {j \in 1 .. Len(existing_bookings) :
                                         existing_bookings[j].status # "cancelled"}}
        st == DedupLoop(existing_keys, new_bookings)
    IN <<st.unique, st.dupes>>

\* deduplicate_ical_bookings: <<unique, dupes>>
deduplicate_ical_bookings(existing_bookings, new_bookings) ==
    LET existing_keys == {ExistingKey(existing_bookings[i]) :
                              i \in 1 .. Len(existing_bookings)}
        st == DedupLoop(existing_keys, new_bookings)
    IN <<st.unique, st.dupes>>

-----------------------------------------------------------------------------
(* Daily briefing                                                           *)

\* property_map.get(pid, {}): the last property with that id, or no property
PropertyMapGet(props, pid) ==
    LET at == {i \in 1 .. Len(props) : props[i].property_id = pid}
    IN IF at = {} THEN NoResult
       ELSE props[CHOOSE i \in at : \A j \in at : j <= i]

\* prop.get("nickname") or prop.get("name", "Unknown")
PName(prop) == IF prop = NoResult THEN "Unknown" ELSE prop.nickname
CheckInTime(prop) == IF prop = NoResult THEN "3 PM" ELSE prop.check_in_time
CheckOutTime(prop) == IF prop = NoResult THEN "11 AM" ELSE prop.check_out_time

\* an action; its text is kept as the parts the f-string is built from
Action(priority, type, text, pid, template) ==
    [priority |-> priority, type |-> type, text |-> text, property_id |-> pid,
     template |-> template]

\* (mutant)
SkipBooking_never(booking) == FALSE

\* if booking.get("status") == "cancelled": continue
SkipBooking(booking) == booking.status = "cancelled"

\* (mutant) a turnover for every check-out of today
NeedsTurnover_always(booking, out_today) == out_today

\* inside `if b_out == today`: if not booking.get("cleaner_confirmed")
NeedsTurnover(booking, out_today) == out_today /\ ~booking.cleaner_confirmed

\* what one booking adds to the briefing, in the order the code appends it
BriefBooking(br, booking, props, td) ==
    LET b_in == _parse_date(booking.check_in)
        b_out == _parse_date(booking.check_out)
        pid == booking.property_id
        prop == PropertyMapGet(props, pid)
        pname == PName(prop)
        guest == booking.guest_name
        entry == [booking |-> booking, property |-> pname]
        in_today == b_in = td
        in_tomorrow == b_in = td + 1
        out_today == b_out = td
        turnover == NeedsTurnover(booking, out_today)
        out_yesterday == b_out = td - 1
        active == b_in # NoDate /\ b_out # NoDate /\ b_in <= td /\ td < b_out
        mid_stay == active /\ booking.num_nights >= 4
                    /\ b_in + (booking.num_nights \div 2) = td
        this_month == b_in # NoDate /\ MonthOf(b_in) = MonthOf(td)
                      /\ YearOf(b_in) = YearOf(td)
    IN [br EXCEPT
        !.check_ins_today = IF in_today THEN Append(@, entry) ELSE @,
        !.check_ins_tomorrow = IF in_tomorrow THEN Append(@, entry) ELSE @,
        !.check_outs_today = IF out_today THEN Append(@, entry) ELSE @,
        !.turnovers_needed = IF turnover THEN Append(@, entry) ELSE @,
        !.active_stays = IF active
                         THEN Append(@, [booking |-> booking, property |-> pname,
                                         nights_remaining |-> b_out - td])
                         ELSE @,
        !.occupied_tonight = IF active THEN @ \cup {pid} ELSE @,
        !.revenue_this_month = IF this_month THEN @ + booking.total_payout ELSE @,
        !.actions = @
            \o (IF in_today
                THEN <<Action("high", "check_in",
                              <<"checks into", guest, pname, CheckInTime(prop)>>, pid, ""),
                       Action("medium", "message",
                              <<"Send check-in instructions to", guest, pname>>, pid,
                              "check_in_day")>>
                ELSE <<>>)
            \o (IF in_tomorrow
                THEN <<Action("medium", "message",
                              <<"Send day-before instructions to", guest, pname>>, pid,
                              "check_in_instructions")>>
                ELSE <<>>)
            \o (IF out_today
                THEN <<Action("high", "checkout",
                              <<"checks out of", guest, pname, CheckOutTime(prop)>>, pid, "")>>
                ELSE <<>>)
            \o (IF turnover
                THEN <<Action("high", "turnover", <<"Confirm turnover for", pname>>, pid, "")>>
                ELSE <<>>)
            \o (IF out_yesterday
                THEN <<Action("low", "message", <<"Review request to", guest, pname>>, pid,
                              "review_request")>>
                ELSE <<>>)
            \o (IF mid_stay
                THEN <<Action("low", "message", <<"Mid-stay check with", guest, pname>>, pid,
                              "mid_stay_check")>>
                ELSE <<>>)]

RECURSIVE BriefBookings(_, _, _, _)
\* for booking in bookings
BriefBookings(br, bs, props, td) ==
    IF bs = <<>> THEN br
    ELSE LET n == Len(bs)
             front == BriefBookings(br, SubSeq(bs, 1, n - 1), props, td)
         IN IF SkipBooking(bs[n]) THEN front
            ELSE BriefBooking(front, bs[n], props, td)

RECURSIVE BriefMaintenance(_, _, _)
\* for item in maintenance_items
BriefMaintenance(br, items, props) ==
    IF items = <<>> THEN br
    ELSE LET n == Len(items)
             front == BriefMaintenance(br, SubSeq(items, 1, n - 1), props)
             item == items[n]
             prop == PropertyMapGet(props, item.property_id)
         IN IF item.status \in {"open", "in_progress"} /\ item.priority \in {"high", "urgent"}
            THEN [front EXCEPT
                     !.maintenance_urgent = Append(@, item),
                     !.actions = Append(@,
                         Action(IF item.priority = "urgent" THEN "high" ELSE "medium",
                                "maintenance",
                                <<"at", item.title, IF prop = NoResult THEN "" ELSE prop.nickname>>,
                                item.property_id, ""))]
            ELSE front

\* (mutant) medium and low share a rank
PriorityRank_flat(a) ==
    IF a.priority = "high" THEN 0
    ELSE IF a.priority \in {"medium", "low"} THEN 1
    ELSE 3

\* {"high": 0, "medium": 1, "low": 2}.get(a.get("priority", "low"), 3)
PriorityRank(a) ==
    IF a.priority = "high" THEN 0
    ELSE IF a.priority = "medium" THEN 1
    ELSE IF a.priority = "low" THEN 2
    ELSE 3

RECURSIVE InsertAction_front(_, _)
\* (mutant) an insertion that puts x before its equals
InsertAction_front(sorted, x) ==
    IF sorted = <<>> THEN <<x>>
    ELSE LET n == Len(sorted)
         IN IF PriorityRank(x) <= PriorityRank(sorted[n])
            THEN Append(InsertAction_front(SubSeq(sorted, 1, n - 1), x), sorted[n])
            ELSE Append(sorted, x)

RECURSIVE InsertAction(_, _)
\* list.sort is stable: x goes after every action whose rank is not greater
InsertAction(sorted, x) ==
    IF sorted = <<>> THEN <<x>>
    ELSE LET n == Len(sorted)
         IN IF PriorityRank(x) < PriorityRank(sorted[n])
            THEN Append(InsertAction(SubSeq(sorted, 1, n - 1), x), sorted[n])
            ELSE Append(sorted, x)

RECURSIVE SortActions(_)
\* briefing["actions"].sort(key=...)
SortActions(actions) ==
    IF actions = <<>> THEN <<>>
    ELSE InsertAction(SortActions(SubSeq(actions, 1, Len(actions) - 1)),
                      actions[Len(actions)])

\* the actions in the order they were appended, before the sort
EmittedActions(props, bs, maintenance_items, td) ==
    LET empty == [check_ins_today |-> <<>>, check_outs_today |-> <<>>,
                  check_ins_tomorrow |-> <<>>, active_stays |-> <<>>,
                  turnovers_needed |-> <<>>, maintenance_urgent |-> <<>>,
                  occupied_tonight |-> {}, revenue_this_month |-> 0, actions |-> <<>>]
    IN BriefMaintenance(BriefBookings(empty, bs, props, td), maintenance_items, props)

\* the summary line, kept as its kind and the counts it prints
Summary(br, actions) ==
    IF br.check_ins_today # <<>> \/ br.check_outs_today # <<>> \/ br.turnovers_needed # <<>>
    THEN [kind |-> "Today", check_ins |-> Len(br.check_ins_today),
          check_outs |-> Len(br.check_outs_today),
          turnovers |-> Len(br.turnovers_needed), actions |-> Len(actions)]
    ELSE IF br.active_stays # <<>>
    THEN [kind |-> "Quiet day", active_stays |-> Len(br.active_stays)]
    ELSE [kind |-> "All clear today"]

\* occupancy_rate is the fraction len(occupied_tonight) * 100 / len(active_properties)
generate_daily_briefing(props, bs, maintenance_items, td) ==
    LET br == EmittedActions(props, bs, maintenance_items, td)
        active_properties == SelectSeq(props, LAMBDA p : p.status = "active")
        actions == SortActions(br.actions)
    IN [date |-> isoformat(td),
        actions |-> actions,
        check_ins_today |-> br.check_ins_today,
        check_outs_today |-> br.check_outs_today,
        check_ins_tomorrow |-> br.check_ins_tomorrow,
        active_stays |-> br.active_stays,
        turnovers_needed |-> br.turnovers_needed,
        maintenance_urgent |-> br.maintenance_urgent,
        vacant_tonight |->
            SelectSeq(active_properties, LAMBDA p : p.property_id \notin br.occupied_tonight),
        occupancy_rate |->
            IF active_properties # <<>>
            THEN [num |-> Cardinality(br.occupied_tonight) * 100,
                  den |-> Len(active_properties)]
            ELSE Zero,
        revenue_this_month |-> br.revenue_this_month,
        summary |-> Summary(br, actions)]

-----------------------------------------------------------------------------
(* Revenue and occupancy analytics                                          *)

RECURSIVE GCD(_, _)
GCD(a, b) == IF b = 0 THEN a ELSE GCD(b, a % b)

\* total += n / d
AddFrac(acc, n, d) ==
    LET l == (acc.den \div GCD(acc.den, d)) * d
    IN [num |-> acc.num * (l \div acc.den) + n * (l \div d), den |-> l]

\* b.get("rating_given", 0)
RatingGiven(b) == IF "rating_given" \in DOMAIN b THEN b.rating_given ELSE 0

\* (mutant)
PropBookings_all(bs, property_id) ==
    SelectSeq(bs, LAMBDA b : b.property_id = property_id)

\* [b for b in bookings if property_id matches and status != "cancelled"]
PropBookings(bs, property_id) ==
    SelectSeq(bs, LAMBDA b : b.property_id = property_id /\ b.status # "cancelled")

\* (mutant)
OverlapNights_noclip(b_in, b_out, start_date, end_date) ==
    Max(b_out - Max(b_in, start_date), 0)

\* max((min(b_out, end_date) - max(b_in, start_date)).days, 0)
OverlapNights(b_in, b_out, start_date, end_date) ==
    Max(Min(b_out, end_date) - Max(b_in, start_date), 0)

RECURSIVE MetricsLoop(_, _, _)
\* the loop of calculate_property_metrics: [total_revenue, total_nights, ratings]
MetricsLoop(prop_bookings, start_date, end_date) ==
    IF prop_bookings = <<>>
    THEN [total_revenue |-> Zero, total_nights |-> 0, ratings |-> <<>>]
    ELSE LET n == Len(prop_bookings)
             st == MetricsLoop(SubSeq(prop_bookings, 1, n - 1), start_date, end_date)
             b == prop_bookings[n]
             b_in == _parse_date(b.check_in)
             b_out == _parse_date(b.check_out)
             nights == OverlapNights(b_in, b_out, start_date, end_date)
             counted == IF nights > 0
                        THEN [st EXCEPT !.total_nights = @ + nights,
                                        !.total_revenue =
                                            AddFrac(@, b.total_payout * nights,
                                                    Max(b_out - b_in, 1))]
                        ELSE st
         IN IF b_in = NoDate \/ b_out = NoDate THEN st
            ELSE IF RatingGiven(b) > 0
                 THEN [counted EXCEPT !.ratings = Append(@, RatingGiven(b))]
                 ELSE counted

\* money in mills, rates in tenths of a percent, ratings in tenths
calculate_property_metrics(bs, property_id, start_date, end_date) ==
    LET total_days == Max(end_date - start_date, 1)
        prop_bookings == PropBookings(bs, property_id)
        st == MetricsLoop(prop_bookings, start_date, end_date)
    IN [total_revenue |-> Round2(st.total_revenue.num, st.total_revenue.den),
        total_nights_booked |-> st.total_nights,
        total_days |-> total_days,
        occupancy_rate |-> RoundHalfEven(st.total_nights * 1000, total_days),
        avg_nightly_rate |->
            IF st.total_nights > 0
            THEN Round2(st.total_revenue.num, st.total_revenue.den * st.total_nights)
            ELSE 0,
        total_bookings |-> Len(prop_bookings),
        avg_rating |->
            IF st.ratings # <<>>
            THEN RoundHalfEven(SumSeq(st.ratings) * 10, Len(st.ratings))
            ELSE 0]

RECURSIVE PortfolioLoop(_, _, _, _)
PortfolioLoop(bs, props, start_date, end_date) ==
    IF props = <<>>
    THEN [total_revenue |-> 0, total_nights_booked |-> 0, total_bookings |-> 0,
          per_property |-> <<>>, occs |-> <<>>, rates |-> <<>>]
    ELSE LET n == Len(props)
             c == PortfolioLoop(bs, SubSeq(props, 1, n - 1), start_date, end_date)
             pid == props[n].property_id
             m == calculate_property_metrics(bs, pid, start_date, end_date)
         IN [total_revenue |-> c.total_revenue + m.total_revenue,
             total_nights_booked |-> c.total_nights_booked + m.total_nights_booked,
             total_bookings |-> c.total_bookings + m.total_bookings,
             per_property |-> Append(c.per_property, <<pid, m>>),
             occs |-> IF m.occupancy_rate > 0 THEN Append(c.occs, m.occupancy_rate)
                      ELSE c.occs,
             rates |-> IF m.avg_nightly_rate > 0 THEN Append(c.rates, m.avg_nightly_rate)
                       ELSE c.rates]

\* per_property is the dict as its items, in insertion order
calculate_portfolio_metrics(bs, props, start_date, end_date) ==
    LET c == PortfolioLoop(bs, props, start_date, end_date)
    IN [total_revenue |-> c.total_revenue,
        total_nights_booked |-> c.total_nights_booked,
        avg_occupancy |-> IF c.occs # <<>>
                          THEN RoundHalfEven(SumSeq(c.occs), Len(c.occs)) ELSE 0,
        avg_nightly_rate |-> IF c.rates # <<>>
                             THEN Round2(SumSeq(c.rates), Len(c.rates)) ELSE 0,
        total_bookings |-> c.total_bookings,
        per_property |-> c.per_property]

-----------------------------------------------------------------------------
(* Gap analysis                                                             *)

\* the characters of a date string, as a tuple that orders as the string does:
\* MM-DD-YYYY < MM/DD/YYYY < YYYY-MM-DD (years 2xxx) < letters, "" first
StrKey(ds) ==
    IF ds.fmt = "empty" THEN <<0, 0, 0, 0, 0>>
    ELSE IF ds.fmt = "usdash" THEN <<1, MonthOf(ds.d), 0, DayOf(ds.d), YearOf(ds.d)>>
    ELSE IF ds.fmt = "us" THEN <<1, MonthOf(ds.d), 1, DayOf(ds.d), YearOf(ds.d)>>
    ELSE IF ds.fmt = "iso" THEN <<2, YearOf(ds.d), 0, MonthOf(ds.d), DayOf(ds.d)>>
    ELSE IF ds.fmt \in {"compact", "stamp", "compactZ", "stampZ"}
         THEN <<2, YearOf(ds.d), 1, MonthOf(ds.d), DayOf(ds.d)>>
    ELSE <<3, 0, 0, 0, 0>>

RECURSIVE TupleLess(_, _)
TupleLess(a, b) ==
    IF a = <<>> \/ b = <<>> THEN FALSE
    ELSE IF Head(a) # Head(b) THEN Head(a) < Head(b)
    ELSE TupleLess(Tail(a), Tail(b))

\* a < b on check_in strings
StrLess(a, b) == TupleLess(StrKey(a), StrKey(b))

\* (mutant)
CheckInLess_rev(a, b) == StrLess(b.check_in, a.check_in)

\* key=lambda b: b.get("check_in", "")
CheckInLess(a, b) == StrLess(a.check_in, b.check_in)

RECURSIVE InsertSorted(_, _)
\* x goes after every element that is not greater than it (sorted() is stable)
InsertSorted(sorted, x) ==
    IF sorted = <<>> THEN <<x>>
    ELSE LET n == Len(sorted)
         IN IF CheckInLess(x, sorted[n])
            THEN Append(InsertSorted(SubSeq(sorted, 1, n - 1), x), sorted[n])
            ELSE Append(sorted, x)

RECURSIVE SortedByCheckIn(_)
SortedByCheckIn(bs) ==
    IF bs = <<>> THEN <<>>
    ELSE InsertSorted(SortedByCheckIn(SubSeq(bs, 1, Len(bs) - 1)), bs[Len(bs)])

\* the bookings get_gap_nights walks
GapBookings(bs, property_id, today_date) ==
    SortedByCheckIn(SelectSeq(bs, LAMBDA b :
        /\ b.property_id = property_id
        /\ b.status # "cancelled"
        /\ _parse_date(b.check_out) # NoDate
        /\ _parse_date(b.check_out) > today_date))

Gap(start, end) == [start |-> isoformat(start), end |-> isoformat(end), nights |-> end - start]

\* (mutant)
Advance_jump(current, b_out) == b_out

\* current = max(current, b_out)
Advance(current, b_out) == Max(current, b_out)

RECURSIVE GapLoop(_, _)
\* the loop of get_gap_nights: [gaps, current]
GapLoop(prop_bookings, today_date) ==
    IF prop_bookings = <<>> THEN [gaps |-> <<>>, current |-> today_date]
    ELSE LET n == Len(prop_bookings)
             st == GapLoop(SubSeq(prop_bookings, 1, n - 1), today_date)
             b_in == _parse_date(prop_bookings[n].check_in)
             b_out == _parse_date(prop_bookings[n].check_out)
         IN IF b_in = NoDate \/ b_out = NoDate THEN st
            ELSE [gaps |-> IF b_in > st.current /\ b_in - st.current >= 1
                           THEN Append(st.gaps, Gap(st.current, b_in))
                           ELSE st.gaps,
                  current |-> Advance(st.current, b_out)]

get_gap_nights(bs, property_id, lookahead_days, today_date) ==
    LET end_date == today_date + lookahead_days
        st == GapLoop(GapBookings(bs, property_id, today_date), today_date)
    IN IF st.current < end_date
       THEN Append(st.gaps, Gap(st.current, end_date))
       ELSE st.gaps

-----------------------------------------------------------------------------
(* Time tracking and material participation                                 *)

\* round(x, 2) and round(x, 1) of num/den thousandths of an hour, in thousandths
RoundHours2(num, den) == RoundHalfEven(num, den * 10) * 10
RoundHours1(num, den) == RoundHalfEven(num, den * 100) * 100

\* (mutant)
YearEntries_all(time_entries, tax_year) ==
    SelectSeq(time_entries, LAMBDA e : _parse_date(e.date) # NoDate)

\* [e for e in time_entries if its date parses and is in tax_year]
YearEntries(time_entries, tax_year) ==
    SelectSeq(time_entries, LAMBDA e :
        _parse_date(e.date) # NoDate /\ YearOf(_parse_date(e.date)) = tax_year)

RECURSIVE TotalHours(_)
TotalHours(entries) ==
    IF entries = <<>> THEN 0 ELSE Head(entries).hours + TotalHours(Tail(entries))

\* a Counter keyed by keys[i], the key of entries[i]: the keys met, each with
\* the sum of its hours
HoursBy(entries, keys) ==
    [k \in {keys[i] : i \in 1 .. Len(entries)} |->
        TotalHours(SelectSeqIdx(entries, {i \in 1 .. Len(entries) : keys[i] = k}))]

\* (mutant) the percentage without round(..., 1): cut to a whole tenth
TestPct_floor(total_hours, threshold) == Min(total_hours \div threshold, 1000)

\* min(round(total_hours / T * 100, 1), 100), in tenths of a percent
TestPct(total_hours, threshold) == Min(RoundHalfEven(total_hours, threshold), 1000)

\* (mutant) the threshold compared with >
TestMet_strict(total_hours, threshold) == total_hours > threshold * 1000

\* total_hours >= T
TestMet(total_hours, threshold) == total_hours >= threshold * 1000

\* round(max(T - total_hours, 0), 2)
HoursNeeded(total_hours, threshold) == RoundHours2(Max(threshold * 1000 - total_hours, 0), 1)

calculate_material_participation(time_entries, tax_year, today_date) ==
    LET year_entries == YearEntries(time_entries, tax_year)
        total_hours == TotalHours(year_entries)
        year_end == Date(tax_year, 12, 31)
        this_year == YearOf(today_date) = tax_year
        days_remaining == IF this_year THEN Max(year_end - today_date, 0) ELSE 0
        days_elapsed == IF this_year THEN today_date - Date(tax_year, 1, 1) + 1 ELSE 365
        \* pace = total_hours / max(days_elapsed / 7, 1) = pace_num / pace_den
        pace_num == total_hours * 7
        pace_den == Max(days_elapsed, 7)
        \* max(weeks_remaining, 1) = week_den / 7
        week_den == Max(days_remaining, 7)
    IN [tax_year |-> tax_year,
        total_hours |-> RoundHours2(total_hours, 1),
        total_entries |-> Len(year_entries),
        hours_by_property |-> HoursBy(year_entries, [i \in 1 .. Len(year_entries) |-> year_entries[i].property_id]),
        hours_by_category |-> HoursBy(year_entries, [i \in 1 .. Len(year_entries) |-> year_entries[i].category]),
        hours_by_month |-> HoursBy(year_entries,
                                   [i \in 1 .. Len(year_entries) |->
                                       MonthOf(_parse_date(year_entries[i].date))]),
        test_3_met |-> TestMet(total_hours, 100),
        test_3_hours_needed |-> HoursNeeded(total_hours, 100),
        test_3_pct |-> TestPct(total_hours, 100),
        test_1_met |-> TestMet(total_hours, 500),
        test_1_hours_needed |-> HoursNeeded(total_hours, 500),
        test_1_pct |-> TestPct(total_hours, 500),
        pace_per_week |-> RoundHours2(pace_num, pace_den),
        projected_year_end |->
            IF days_remaining > 0
            THEN RoundHours1(total_hours * (pace_den + days_remaining), pace_den)
            ELSE RoundHours1(total_hours, 1),
        days_remaining |-> days_remaining,
        weeks_remaining |-> RoundHalfEven(days_remaining * 10, 7),
        hours_per_week_for_100 |->
            RoundHours2(Max(100 * 1000 - total_hours, 0) * 7, week_den),
        hours_per_week_for_500 |->
            RoundHours2(Max(500 * 1000 - total_hours, 0) * 7, week_den)]

-----------------------------------------------------------------------------
(* Schedule E                                                               *)

\* cat_map.get(category, "line_19_other")
cat_map(category) ==
    CASE category = "Advertising/Marketing" -> "line_5_advertising"
      [] category \in {"Travel (Property Visits)", "Vehicle/Mileage"} -> "line_6_auto"
      [] category = "Cleaning" -> "line_7_cleaning"
      [] category = "Maintenance/Repairs" -> "line_14_repairs"
      [] category = "Platform Fees" -> "line_8_commissions"
      [] category \in {"Professional Services (Accounting)",
                       "Professional Services (Legal)"} -> "line_10_legal"
      [] category = "Mortgage Interest" -> "line_12_mortgage_int"
      [] category \in {"Supplies (Guest)", "Supplies (Cleaning)"} -> "line_15_supplies"
      [] category \in {"Utilities (Electric)", "Utilities (Gas)", "Utilities (Water/Sewer)",
                       "Utilities (Internet/Cable)", "Utilities (Trash)"} -> "line_17_utilities"
      [] category = "Depreciation" -> "line_18_depreciation"
      [] OTHER -> "line_19_other"

\* the keys of sched that start with "line_", line_3_rents apart
ExpenseLines ==
    <<"line_5_advertising", "line_6_auto", "line_7_cleaning", "line_8_commissions",
      "line_9_insurance", "line_10_legal", "line_12_mortgage_int", "line_14_repairs",
      "line_15_supplies", "line_16_taxes", "line_17_utilities", "line_18_depreciation",
      "line_19_other">>

\* the lines as first filled in
SeedLines(property_data) ==
    [l \in {ExpenseLines[i] : i \in 1 .. Len(ExpenseLines)} |->
        IF l = "line_9_insurance" THEN Round2(property_data.insurance_annual, 1)
        ELSE IF l = "line_16_taxes" THEN Round2(property_data.property_tax_annual, 1)
        ELSE 0]

RECURSIVE FoldExpenses(_, _, _, _)
\* for exp in expenses: sched[line] += amount
FoldExpenses(lines, expenses, pid, tax_year) ==
    IF expenses = <<>> THEN lines
    ELSE LET n == Len(expenses)
             front == FoldExpenses(lines, SubSeq(expenses, 1, n - 1), pid, tax_year)
             exp == expenses[n]
         IN IF /\ exp.property_id = pid
               /\ _parse_date(exp.date) # NoDate
               /\ YearOf(_parse_date(exp.date)) = tax_year
            THEN [front EXCEPT ![cat_map(exp.category)] = @ + exp.amount]
            ELSE front

RECURSIVE SumLines(_, _)
SumLines(lines, names) ==
    IF names = <<>> THEN 0 ELSE lines[Head(names)] + SumLines(lines, Tail(names))

\* (mutant)
YearBookings_all(bs, pid) == SelectSeq(bs, LAMBDA b : b.property_id = pid)

\* [b for b in bookings if property_id matches and status != "cancelled"]
YearBookings(bs, pid) ==
    SelectSeq(bs, LAMBDA b : b.property_id = pid /\ b.status # "cancelled")

RECURSIVE FairRentalDays(_, _)
FairRentalDays(year_bookings, tax_year) ==
    IF year_bookings = <<>> THEN 0
    ELSE LET b_in == _parse_date(Head(year_bookings).check_in)
             b_out == _parse_date(Head(year_bookings).check_out)
             rest == FairRentalDays(Tail(year_bookings), tax_year)
         IN IF b_in # NoDate /\ b_out # NoDate
               /\ (YearOf(b_in) = tax_year \/ YearOf(b_out) = tax_year)
            THEN rest + Max(Min(b_out, Date(tax_year, 12, 31) + 1)
                            - Max(b_in, Date(tax_year, 1, 1)), 0)
            ELSE rest

RECURSIVE GrossRents(_, _)
GrossRents(year_bookings, tax_year) ==
    IF year_bookings = <<>> THEN 0
    ELSE LET b_in == _parse_date(Head(year_bookings).check_in)
             rest == GrossRents(Tail(year_bookings), tax_year)
         IN IF b_in # NoDate /\ YearOf(b_in) = tax_year
            THEN rest + Head(year_bookings).total_payout
            ELSE rest

\* (mutant) net income from the rounded total
NetIncome_rounded(line_3_rents, total_exp) == line_3_rents - Round2(total_exp, 1)

\* round(sched["line_3_rents"] - total_exp, 2)
NetIncome(line_3_rents, total_exp) == Round2(line_3_rents - total_exp, 1)

generate_schedule_e_summary(property_data, bs, expenses, tax_year) ==
    LET pid == property_data.property_id
        year_bookings == YearBookings(bs, pid)
        line_3_rents == Round2(GrossRents(year_bookings, tax_year), 1)
        lines == FoldExpenses(SeedLines(property_data), expenses, pid, tax_year)
        total_exp == SumLines(lines, ExpenseLines)
    IN [property_address |-> "",
        fair_rental_days |-> FairRentalDays(year_bookings, tax_year),
        line_3_rents |-> line_3_rents,
        lines |-> lines,
        total_expenses |-> Round2(total_exp, 1),
        net_income |-> NetIncome(line_3_rents, total_exp)]

-----------------------------------------------------------------------------
(* Inputs of the model                                                      *)

MaxLedger == 2        \* the most bookings the session's ledger holds

Mar(d) == Date(2026, 3, d)

\* st.session_state.properties (generate_demo_data, reduced to the fields read)
Prop1 ==
    [property_id |-> "prop_001", nickname |-> "Loft", status |-> "active",
     base_nightly_rate |-> 100000, cleaning_fee |-> 50000,
     check_in_time |-> "3:00 PM", check_out_time |-> "11:00 AM",
     mortgage_payment |-> 2100000, property_tax_annual |-> 5250000,
     insurance_annual |-> 1800000]
Prop2 ==
    [property_id |-> "prop_002", nickname |-> "Beach", status |-> "inactive",
     base_nightly_rate |-> 225000, cleaning_fee |-> 120000,
     check_in_time |-> "4:00 PM", check_out_time |-> "10:00 AM",
     mortgage_payment |-> 3425000, property_tax_annual |-> 8560005,
     insurance_annual |-> 3200000]
properties == <<Prop1, Prop2>>
PropSet == {Prop1, Prop2}

\* guest names and SUMMARY texts
Text ==
    [NAME_Ann |-> <<"A", "n", "n">>,
     NAME_Bo |-> <<"B", "o">>,
     SUM_OwnerBlock |->
        <<"N", "o", "t", " ", "a", "v", "a", "i", "l", "a", "b", "l", "e", " ", "-", " ", "O", "w", "n", "e", "r", " ", "b", "l", "o", "c", "k">>,
     SUM_Reserved |-> <<"R", "e", "s", "e", "r", "v", "e", "d">>,
     SUM_BookedAnn |->
        <<"B", "o", "o", "k", "e", "d", " ", "-", " ", "A", "n", "n">>,
     SUM_CLOSED |->
        <<"C", "L", "O", "S", "E", "D", " ", "-", " ", "N", "o", "t", " ", "a", "v", "a", "i", "l", "a", "b", "l", "e">>,
     SUM_AnnCode |-> <<"A", "n", "n", " ", "(", "H", "M", "1", "2", ")">>,
     SUM_Enclosed |->
        <<"E", "n", "c", "l", "o", "s", "e", "d", " ", "A", "n", "n">>,
     SUM_AirbnbBo |-> <<"A", "i", "r", "b", "n", "b", " ", "B", "o">>,
     SUM_MAINT |->
        <<" ", "M", "a", "i", "n", "t", "e", "n", "a", "n", "c", "e", " ">>,
     SUM_Blocks |-> <<"B", "l", "o", "c", "k", " ", "p", "a", "r", "t", "y">>]

Booking(pid, guest, ci, co, nn, rate, cf, payout, fee, platform, status, cleaner) ==
    [property_id |-> pid, guest_name |-> guest, check_in |-> ci, check_out |-> co,
     num_nights |-> nn, nightly_rate |-> rate, cleaning_fee |-> cf,
     total_payout |-> payout, platform |-> platform, platform_fee |-> fee,
     status |-> status, turnover_status |-> "pending", cleaner_confirmed |-> cleaner]

\* a row of the bookings sheet as load_all_from_sheets returns it
SheetBooking(pid, guest, ci, co, payout, status) ==
    Booking(pid, guest, ci, co, _parse_date(co) - _parse_date(ci), 100000, 50000,
            payout, 0, Lit.PLAT_Airbnb, status, FALSE)


(* A calendar event as the feed's author wrote it: its dates, its summary  *)
(* and, read off the summary by eye, whether it holds a blocked keyword.   *)
(* fold > 0: the SUMMARY line is folded after that many characters of the  *)
(* summary, with a CRLF line break (crlf) or a bare LF before the blank.   *)
Event(dtstart, dtend, summary, kw) ==
    [dtstart |-> dtstart, dtend |-> dtend, summary |-> summary, kw |-> kw,
     fold |-> 0, crlf |-> TRUE]

Folded(e, k, crlf) == [e EXCEPT !.fold = k, !.crlf = crlf]

\* the lines of one VEVENT
EventLines(e) ==
    <<BeginLine,
      PropLine(<<"DTSTART", "VALUE=DATE">>, e.dtstart),
      PropLine(<<"DTEND", "VALUE=DATE">>, e.dtend)>>
    \o (IF e.fold = 0 THEN <<PropLine(<<"SUMMARY">>, e.summary)>>
        ELSE <<PropLine(<<"SUMMARY">>, SubSeq(e.summary, 1, e.fold)),
               ContLine(e.crlf, SubSeq(e.summary, e.fold + 1, Len(e.summary)))>>)
    \o <<EndLine>>

RECURSIVE FeedLines(_)
FeedLines(events) ==
    IF events = <<>> THEN <<>>
    ELSE EventLines(Head(events)) \o FeedLines(Tail(events))

\* all sequences over S of length at most n
SeqsUpTo(S, n) == UNION {[1 .. k -> S] : k \in 0 .. n}

\* a text as fetched or pasted: how it starts, and its event lines
CalendarText(events) == [head |-> "BEGIN:VCALENDAR", events |-> events,
                         lines |-> FeedLines(events)]
ErrorText == [head |-> "ERROR:", events |-> <<>>, lines |-> <<>>]
HtmlText == [head |-> "<html>", events |-> <<>>, lines |-> <<>>]
\* events copied out of a calendar without its BEGIN:VCALENDAR / END:VCALENDAR
FragmentText(events) == [head |-> "BEGIN:VEVENT", events |-> events,
                         lines |-> FeedLines(events)]

starts_with_ERROR(text) == text.head = "ERROR:"
has_VCALENDAR(text) == text.head = "BEGIN:VCALENDAR"

-----------------------------------------------------------------------------
(* app.py: Add Booking, Import from URL, Import from Paste                  *)

\* the events of the texts handed to the import handlers
Ev ==
    [Reserved |->
        Event(DateStr("compact", Mar(1)), DateStr("compact", Mar(3)), Text.SUM_Reserved, FALSE),
     AnnZ |->
        Event(DateStr("stampZ", Mar(1)), DateStr("stampZ", Mar(3)), Text.SUM_BookedAnn, FALSE),
     AnnCode |->
        Event(DateStr("compact", Mar(3)), DateStr("compact", Mar(6)), Text.SUM_AnnCode, FALSE),
     Owner |->
        Event(DateStr("compact", Mar(6)), DateStr("compact", Mar(8)), Text.SUM_OwnerBlock, TRUE),
     Junk |->
        Event(JunkStr, DateStr("compact", Mar(3)), Text.SUM_Reserved, FALSE)]

\* the calendar texts the import handlers are given
ImportTexts ==
    {CalendarText(<<>>),
     CalendarText(<<Ev.Reserved>>),
     CalendarText(<<Ev.Reserved, Ev.AnnZ>>),
     CalendarText(<<Ev.AnnCode, Ev.Owner>>),
     CalendarText(<<Ev.Junk, Ev.AnnZ>>),
     HtmlText,
     FragmentText(<<Ev.AnnCode>>)}

\* what fetch_ical_from_url can return: the text served, or "ERROR: ..."
FetchOutcomes == ImportTexts \cup {ErrorText}

\* ledgers the session can start from (load_all_from_sheets)
InitialLedgers ==
    {<<>>,
     <<SheetBooking("prop_001", Text.NAME_Bo, isoformat(Mar(1)), isoformat(Mar(3)),
                    339500, "cancelled")>>,
     <<SheetBooking("prop_001", Text.NAME_Bo, isoformat(Mar(3)), isoformat(Mar(6)),
                    339500, "confirmed"),
       SheetBooking("prop_001", Text.NAME_Ann, isoformat(Mar(3)), isoformat(Mar(6)),
                    339500, "checked_out")>>}

\* (mutant) the handlers without the test for the calendar marker
ImportResult_nocheck(ledger, text, prop, platform, td) ==
    LET parsed == parse_ical(text.lines, prop.property_id, platform,
                             prop.base_nightly_rate, prop.cleaning_fee, td)
        dd == deduplicate_ical_bookings(ledger, parsed[1])
    IN [error |-> "", new_bookings |-> parsed[1], blocked |-> parsed[2],
        unique |-> dd[1], dupes |-> dd[2]]

\* the body of the two import handlers once the text is in hand:
\* what is appended to the ledger and what st.error / st.success reports
ImportResult(ledger, text, prop, platform, td) ==
    IF ~has_VCALENDAR(text)
    THEN [error |-> "Invalid iCal data", new_bookings |-> <<>>, blocked |-> <<>>,
          unique |-> <<>>, dupes |-> 0]
    ELSE LET parsed == parse_ical(text.lines, prop.property_id, platform,
                                  prop.base_nightly_rate, prop.cleaning_fee, td)
             dd == deduplicate_ical_bookings(ledger, parsed[1])
         IN [error |-> "", new_bookings |-> parsed[1], blocked |-> parsed[2],
             unique |-> dd[1], dupes |-> dd[2]]

FetchFailed ==
    [error |-> "Could not fetch calendar", new_bookings |-> <<>>, blocked |-> <<>>,
     unique |-> <<>>, dupes |-> 0]

\* the message shown after an import
Report(r) ==
    [error |-> r.error, imported |-> Len(r.unique), dupes |-> r.dupes,
     blocked |-> Len(r.blocked), parsed |-> Len(r.new_bookings)]

ImportFromURL ==
    \E prop \in PropSet, ical_text \in FetchOutcomes :
        \E r \in {IF starts_with_ERROR(ical_text) THEN FetchFailed
                  ELSE ImportResult(bookings, ical_text, prop, Lit.PLAT_Airbnb, today)} :
           /\ Len(bookings) + Len(r.unique) <= MaxLedger
           /\ bookings' = bookings \o r.unique
           /\ op' = "import_url"
           /\ args' = ical_text.head
           /\ result' = Report(r)
           /\ UNCHANGED today

ImportFromPaste ==
    \E prop \in PropSet, ical_paste \in ImportTexts :
        \E r \in {ImportResult(bookings, ical_paste, prop, Lit.PLAT_Airbnb, today)} :
           /\ Len(bookings) + Len(r.unique) <= MaxLedger
           /\ bookings' = bookings \o r.unique
           /\ op' = "import_paste"
           /\ args' = ical_paste.head
           /\ result' = Report(r)
           /\ UNCHANGED today

\* the dates the Add Booking form is filled with: <<check-in, check-out>>
FormDates == {<<Mar(1), Mar(3)>>}

AddBooking ==
    \E prop \in PropSet, d \in FormDates :
        LET nb_ci == d[1]
            nb_co == d[2]
            nn == nb_co - nb_ci
            cf == prop.cleaning_fee
            nb_rate == prop.base_nightly_rate
            pay == calculate_payout(nb_rate, nn, cf, DefaultFeePct)
        IN /\ Len(bookings) < MaxLedger
           /\ bookings' = Append(bookings,
                  Booking(prop.property_id, Text.NAME_Bo, isoformat(nb_ci), isoformat(nb_co),
                          nn, nb_rate, cf, pay[1], pay[2], Lit.PLAT_Airbnb, "confirmed", FALSE))
           /\ op' = "add_booking"
           /\ args' = ""
           /\ result' = NoResult
           /\ UNCHANGED today

InitImport ==
    /\ bookings \in InitialLedgers
    /\ today = Mar(2)
    /\ op = "start"
    /\ args = ""
    /\ result = NoResult

NextImport == ImportFromURL \/ ImportFromPaste \/ AddBooking

SpecImport == InitImport /\ [][NextImport]_vars

-----------------------------------------------------------------------------
(* Reconciliation claims                                                    *)

\* C1: importing a feed a second time, right after its unique bookings were
\* appended to the ledger, adds nothing and reports every candidate booking
\* parsed from the feed as a duplicate -- from every ledger the session can
\* reach, for every calendar text and property, also when the day has changed
\* in between.
C1_ImportIdempotent ==
    \A prop \in PropSet, text \in ImportTexts, later \in {today, today + 1} :
        LET first == ImportResult(bookings, text, prop, Lit.PLAT_Airbnb, today)
            ledger2 == bookings \o first.unique
            second == ImportResult(ledger2, text, prop, Lit.PLAT_Airbnb, later)
        IN /\ second.unique = <<>>
           /\ second.dupes = Len(second.new_bookings)
           /\ Len(second.new_bookings) = Len(first.new_bookings)

\* C1 witness: an import has just added nothing and skipped two duplicates,
\* both of them bookings an earlier import of the session put in the ledger
C1_Witness ==
    /\ op \in {"import_url", "import_paste"}
    /\ result.error = ""
    /\ result.imported = 0
    /\ result.dupes = 2
    /\ \E i \in 1 .. Len(bookings) : bookings[i].guest_name = Lit.STR_Airbnb_Guest

-----------------------------------------------------------------------------
(* deduplicate_ical_bookings on its own                                     *)

MaxExisting == 2      \* the longest ledger handed to deduplicate_ical_bookings
MaxBatch == 3         \* the longest batch handed to it

\* bookings that agree or differ in each part of the key and in the guest;
\* the fourth writes March 1 as 03/01/2026
DedupBookings ==
    {SheetBooking("prop_001", Text.NAME_Ann, isoformat(Mar(1)), isoformat(Mar(3)), 339500, "confirmed"),
     SheetBooking("prop_001", Text.NAME_Bo, isoformat(Mar(1)), isoformat(Mar(3)), 339500, "cancelled"),
     SheetBooking("prop_002", Text.NAME_Ann, isoformat(Mar(1)), isoformat(Mar(3)), 339500, "confirmed"),
     SheetBooking("prop_001", Text.NAME_Ann, DateStr("us", Mar(1)), isoformat(Mar(3)), 339500, "confirmed"),
     SheetBooking("prop_001", Text.NAME_Ann, isoformat(Mar(1)), isoformat(Mar(6)), 630500, "confirmed")}

Deduplicate ==
    /\ op = "start"
    /\ \E r \in {deduplicate_ical_bookings(bookings, args)} :
          result' = [unique |-> r[1], dupes |-> r[2]]
    /\ op' = "deduplicate_ical_bookings"
    /\ UNCHANGED <<bookings, today, args>>

InitDedup ==
    /\ bookings \in SeqsUpTo(DedupBookings, MaxExisting)
    /\ args \in SeqsUpTo(DedupBookings, MaxBatch)
    /\ today = Mar(2)
    /\ op = "start"
    /\ result = NoResult

NextDedup == Deduplicate

SpecDedup == InitDedup /\ [][NextDedup]_vars

\* two bookings are the same stay: same property, same check-in, same check-out
SameStay(a, b) ==
    /\ a.property_id = b.property_id
    /\ a.check_in = b.check_in
    /\ a.check_out = b.check_out

\* the batch positions that must survive: the stay is not in the ledger and
\* not earlier in the batch
Survivors(existing, batch) ==
    {i \in 1 .. Len(batch) :
        /\ \A k \in 1 .. Len(existing) : ~SameStay(existing[k], batch[i])
        /\ \A j \in 1 .. (i - 1) : ~SameStay(batch[j], batch[i])}

\* C2: the unique list is exactly the batch bookings whose stay (property_id,
\* check_in, check_out) is neither in the ledger nor earlier in the batch, in
\* batch order, whatever their guest names; so it holds no stay of the ledger
\* and no stay twice; the rest of the batch is counted as duplicates.
C2_DedupByStay ==
    op = "deduplicate_ical_bookings" =>
        /\ result.unique = SelectSeqIdx(args, Survivors(bookings, args))
        /\ result.dupes = Len(args) - Len(result.unique)
        /\ \A i \in 1 .. Len(result.unique) :
              /\ \A k \in 1 .. Len(bookings) : ~SameStay(bookings[k], result.unique[i])
              /\ \A j \in 1 .. Len(result.unique) :
                    SameStay(result.unique[i], result.unique[j]) => i = j

\* C2 witness: a batch whose first booking survives, whose second is the same
\* stay under another guest name, and whose third is a stay of the ledger
C2_Witness ==
    /\ op = "deduplicate_ical_bookings"
    /\ Len(args) = 3 /\ Len(bookings) >= 1
    /\ SameStay(args[1], args[2]) /\ args[1].guest_name # args[2].guest_name
    /\ SameStay(args[3], bookings[1]) /\ ~SameStay(args[1], args[3])
    /\ result.unique = <<args[1]>>
    /\ result.dupes = 2

-----------------------------------------------------------------------------
(* parse_ical on its own                                                    *)

MaxFeedEvents == 2    \* the most events in a feed handed to parse_ical

\* DTSTART and DTEND of an event
Dates ==
    [Mar1to3 |->
        <<DateStr("compact", Mar(1)), DateStr("compact", Mar(3))>>,
     Stamped |->
        <<DateStr("stampZ", Mar(3)), DateStr("stamp", Mar(6))>>,
     BadStart |->
        <<JunkStr, DateStr("compact", Mar(3))>>,
     NoEnd |->
        <<DateStr("compact", Mar(3)), EmptyStr>>,
     SameDay |->
        <<DateStr("compact", Mar(3)), DateStr("compact", Mar(3))>>,
     Backwards |->
        <<DateStr("compact", Mar(3)), DateStr("compact", Mar(1))>>]

EventOn(dates, summary, kw) == Event(dates[1], dates[2], summary, kw)

\* the events the feeds are made of
FeedEvents ==
    {EventOn(Dates.Mar1to3, Text.SUM_OwnerBlock, TRUE),
     EventOn(Dates.Mar1to3, Text.SUM_Reserved, FALSE),
     EventOn(Dates.Mar1to3, Text.SUM_BookedAnn, FALSE),
     EventOn(Dates.Mar1to3, Text.SUM_CLOSED, TRUE),
     EventOn(Dates.Mar1to3, Text.SUM_Enclosed, TRUE),
     EventOn(Dates.Mar1to3, Text.SUM_MAINT, TRUE),
     EventOn(Dates.Mar1to3, Text.SUM_Blocks, FALSE),
     EventOn(Dates.Mar1to3, Text.SUM_AnnCode, FALSE),
     EventOn(Dates.Mar1to3, <<>>, FALSE),
     EventOn(Dates.Stamped, Text.SUM_OwnerBlock, TRUE),
     EventOn(Dates.Stamped, Text.SUM_Reserved, FALSE),
     EventOn(Dates.BadStart, Text.SUM_OwnerBlock, TRUE),
     EventOn(Dates.BadStart, Text.SUM_Reserved, FALSE),
     EventOn(Dates.NoEnd, Text.SUM_CLOSED, TRUE),
     EventOn(Dates.SameDay, Text.SUM_Reserved, FALSE),
     EventOn(Dates.Backwards, Text.SUM_BookedAnn, FALSE),
     Folded(EventOn(Dates.Mar1to3, Text.SUM_OwnerBlock, TRUE), 9, TRUE),
     Folded(EventOn(Dates.Mar1to3, Text.SUM_OwnerBlock, TRUE), 9, FALSE),
     Folded(EventOn(Dates.Stamped, Text.SUM_BookedAnn, FALSE), 6, TRUE),
     Folded(EventOn(Dates.Stamped, Text.SUM_BookedAnn, FALSE), 6, FALSE)}

ParseFeed ==
    /\ op = "start"
    /\ \E r \in {parse_ical(FeedLines(args.events), args.prop.property_id, args.platform,
                           args.prop.base_nightly_rate, args.prop.cleaning_fee, today)} :
          result' = [bookings |-> r[1], blocked |-> r[2]]
    /\ op' = "parse_ical"
    /\ UNCHANGED <<bookings, today, args>>

\* date.today() on the days a feed is parsed
ParseDays == {Mar(2), Mar(3), Mar(6)}

InitParse ==
    /\ bookings = <<>>
    /\ today \in ParseDays
    /\ op = "start"
    /\ \E events \in SeqsUpTo(FeedEvents, MaxFeedEvents), prop \in PropSet :
          args = [events |-> events, prop |-> prop, platform |-> Lit.PLAT_Airbnb]
    /\ result = NoResult

NextParse == ParseFeed

SpecParse == InitParse /\ [][NextParse]_vars

\* an iCal DATE or DATE-TIME value
DateParses(ds) == ds.fmt \in {"compact", "stamp", "compactZ", "stampZ"}

\* <<start, end>> as ISO strings of the feed events chosen by keep, in feed order
RECURSIVE StaysOf(_, _)
StaysOf(events, wanted) ==
    IF events = <<>> THEN <<>>
    ELSE LET e == Head(events)
         IN (IF DateParses(e.dtstart) /\ DateParses(e.dtend) /\ e.kw = wanted
             THEN << <<isoformat(e.dtstart.d), isoformat(e.dtend.d)>> >>
             ELSE <<>>) \o StaysOf(Tail(events), wanted)

RECURSIVE BookedStays(_)
BookedStays(bs) ==
    IF bs = <<>> THEN <<>>
    ELSE << <<Head(bs).check_in, Head(bs).check_out>> >> \o BookedStays(Tail(bs))

RECURSIVE BlockedStays(_)
BlockedStays(bl) ==
    IF bl = <<>> THEN <<>>
    ELSE << <<Head(bl).start, Head(bl).end>> >> \o BlockedStays(Tail(bl))

\* the booking list holds no keyword event and the blocked list holds exactly
\* the keyword events whose dates parse
BlockedNeverBooked ==
    op = "parse_ical" =>
        /\ BookedStays(result.bookings) = StaysOf(args.events, FALSE)
        /\ BlockedStays(result.blocked) = StaysOf(args.events, TRUE)

\* C3: for every feed, an event whose summary contains a blocked keyword is
\* never in the booking list and, if its dates parse, is in the blocked list;
\* an event whose summary contains none is never in the blocked list.
C3_BlockedNeverBooked == BlockedNeverBooked

\* C3 on the feeds whose folded lines are all broken by CRLF
C3_OnCRLFFeeds ==
    (\A i \in 1 .. Len(args.events) : args.events[i].fold > 0 => args.events[i].crlf)
        => BlockedNeverBooked

\* a feed that holds the owner block folded after a CRLF and a reservation
C3_Witness ==
    /\ op = "parse_ical"
    /\ Len(args.events) = 2
    /\ args.events[1].kw /\ args.events[1].fold > 0 /\ args.events[1].crlf
    /\ ~args.events[2].kw /\ DateParses(args.events[2].dtstart)
    /\ Len(result.blocked) = 1 /\ result.blocked[1].reason = Text.SUM_OwnerBlock
    /\ Len(result.bookings) = 1

-----------------------------------------------------------------------------
(* The analytics functions on a ledger                                      *)

Rated(b, rating) == [x \in (DOMAIN b) \cup {"rating_given"} |->
                        IF x = "rating_given" THEN rating ELSE b[x]]

\* a booking whose cleaner has confirmed the turnover
CleanerConfirmed(b) == [b EXCEPT !.cleaner_confirmed = TRUE]

\* the bookings the ledgers are made of: stays that touch, overlap and leave
\* gaps, a check-in written as 03/04/2026, a stay of no nights, a check-in
\* that is no date, two cancelled stays, both properties, a stay at a
\* property that is not in the snapshot; the cleaner of the first stay has
\* confirmed
LedgerBookings ==
    {CleanerConfirmed(SheetBooking("prop_001", Text.NAME_Ann, isoformat(Mar(1)), isoformat(Mar(3)),
                                   242500, "checked_out")),
     Rated(SheetBooking("prop_001", Text.NAME_Bo, isoformat(Mar(6)), isoformat(Mar(9)), 339500,
                        "confirmed"), 5),
     SheetBooking("prop_001", Text.NAME_Ann, isoformat(Mar(1)), isoformat(Mar(4)), 339500, "checked_in"),
     SheetBooking("prop_001", Text.NAME_Bo, DateStr("us", Mar(4)), DateStr("us", Mar(6)), 242500,
                  "confirmed"),
     SheetBooking("prop_001", Text.NAME_Bo, isoformat(Mar(3)), isoformat(Mar(5)), 500000, "cancelled"),
     Rated(SheetBooking("prop_002", Text.NAME_Ann, isoformat(Mar(1)), isoformat(Mar(5)), 1018500,
                        "checked_in"), 4),
     SheetBooking("prop_001", Text.NAME_Bo, isoformat(Mar(3)), isoformat(Mar(3)), 50000, "confirmed"),
     SheetBooking("prop_001", Text.NAME_Bo, JunkStr, isoformat(Mar(5)), 100000, "confirmed"),
     SheetBooking("prop_002", Text.NAME_Bo, isoformat(Mar(1)), isoformat(Mar(3)), 470450, "cancelled"),
     SheetBooking("prop_009", Text.NAME_Ann, isoformat(Mar(3)), isoformat(Mar(4)), 145500, "confirmed")}

\* <<start_date, end_date>>: one night, ten days, no day, and end before start
Windows ==
    {<<Mar(2), Mar(3)>>, <<Mar(1), Mar(10)>>, <<Mar(2), Mar(8)>>, <<Mar(3), Mar(3)>>,
     <<Mar(4), Mar(2)>>}

Lookaheads == {2, 9, 30}
TaxYears == {2025, 2026}

MaintenanceItem(status, priority, title, pid) ==
    [status |-> status, priority |-> priority, title |-> title, property_id |-> pid]

MaintenanceLists ==
    {<<>>,
     <<MaintenanceItem("in_progress", "high", "HVAC", "prop_001"),
       MaintenanceItem("open", "low", "Paint", "prop_001"),
       MaintenanceItem("open", "urgent", "Leak", "prop_002"),
       MaintenanceItem("done", "urgent", "Lock", "prop_009")>>,
     <<MaintenanceItem("open", "urgent", "Fence", "prop_009")>>}

Expense(pid, date, category, amount) ==
    [property_id |-> pid, date |-> date, category |-> category, amount |-> amount]

ExpenseLists ==
    {<<>>,
     <<Expense("prop_001", isoformat(Mar(5)), "Cleaning", 85000),
       Expense("prop_001", isoformat(Date(2025, 12, 31)), "Utilities (Gas)", 40000),
       Expense("prop_002", DateStr("us", Mar(7)), "Pool", 12345)>>}

PropertyMetrics ==
    /\ op = "start"
    /\ \E prop \in PropSet, w \in Windows :
          /\ args' = [property_id |-> prop.property_id, start_date |-> w[1],
                      end_date |-> w[2]]
          /\ result' = calculate_property_metrics(bookings, prop.property_id, w[1], w[2])
    /\ op' = "calculate_property_metrics"
    /\ UNCHANGED <<bookings, today>>

PortfolioMetrics ==
    /\ op = "start"
    /\ \E w \in Windows :
          /\ args' = [start_date |-> w[1], end_date |-> w[2]]
          /\ result' = calculate_portfolio_metrics(bookings, properties, w[1], w[2])
    /\ op' = "calculate_portfolio_metrics"
    /\ UNCHANGED <<bookings, today>>

GapNights ==
    /\ op = "start"
    /\ \E prop \in PropSet, lookahead_days \in Lookaheads :
          /\ args' = [property_id |-> prop.property_id, lookahead_days |-> lookahead_days]
          /\ result' = get_gap_nights(bookings, prop.property_id, lookahead_days, today)
    /\ op' = "get_gap_nights"
    /\ UNCHANGED <<bookings, today>>

DailyBriefing ==
    /\ op = "start"
    /\ \E maintenance_items \in MaintenanceLists :
          /\ args' = [maintenance_items |-> maintenance_items]
          /\ result' = generate_daily_briefing(properties, bookings, maintenance_items, today)
    /\ op' = "generate_daily_briefing"
    /\ UNCHANGED <<bookings, today>>

ScheduleE ==
    /\ op = "start"
    /\ \E prop \in PropSet, expenses \in ExpenseLists, tax_year \in TaxYears :
          /\ args' = [property_data |-> prop, expenses |-> expenses, tax_year |-> tax_year]
          /\ result' = generate_schedule_e_summary(prop, bookings, expenses, tax_year)
    /\ op' = "generate_schedule_e_summary"
    /\ UNCHANGED <<bookings, today>>

InitAnalytics ==
    /\ bookings \in SeqsUpTo(LedgerBookings, MaxLedger)
    /\ today \in {Mar(1), Mar(3), Mar(4)}
    /\ op = "start"
    /\ args = NoResult
    /\ result = NoResult

NextAnalytics ==
    PropertyMetrics \/ PortfolioMetrics \/ GapNights \/ DailyBriefing \/ ScheduleE

SpecAnalytics == InitAnalytics /\ [][NextAnalytics]_vars

\* the nights of the stay [check_in, check_out) that lie in [start_date, end_date)
NightsInWindow(b, start_date, end_date) ==
    Cardinality({n \in _parse_date(b.check_in) .. (_parse_date(b.check_out) - 1) :
                    start_date <= n /\ n < end_date})

StayNights(b) == _parse_date(b.check_out) - _parse_date(b.check_in)

\* the ledger positions that count for a property: not cancelled, dated
Counted(bs, property_id) ==
    {i \in 1 .. Len(bs) :
        /\ bs[i].property_id = property_id
        /\ bs[i].status # "cancelled"
        /\ _parse_date(bs[i].check_in) # NoDate
        /\ _parse_date(bs[i].check_out) # NoDate}

RECURSIVE SumOver(_, _)
\* the sum of f[x] over x in S
SumOver(S, f) ==
    IF S = {} THEN 0
    ELSE LET x == CHOOSE y \in S : TRUE IN f[x] + SumOver(S \ {x}, f)

RECURSIVE ProductOver(_, _)
ProductOver(S, f) ==
    IF S = {} THEN 1
    ELSE LET x == CHOOSE y \in S : TRUE IN f[x] * ProductOver(S \ {x}, f)

\* C4: calculate_property_metrics counts for each non-cancelled booking of the
\* property the nights of [check_in, check_out) inside [start, end), and its
\* revenue is (to the cent) the sum of total_payout x overlapping nights /
\* total nights over the bookings that have nights; the stay March 1..4 over
\* the window [March 2, March 3) gives 1 night and a third of its payout.
C4_ProratedNights ==
    op = "calculate_property_metrics" =>
        LET counted == Counted(bookings, args.property_id)
            paying == {i \in counted : StayNights(bookings[i]) > 0}
            D == ProductOver(paying, [i \in paying |-> StayNights(bookings[i])])
            owed == SumOver(paying, [i \in paying |->
                        bookings[i].total_payout
                        * NightsInWindow(bookings[i], args.start_date, args.end_date)
                        * (D \div StayNights(bookings[i]))])
            off == result.total_revenue * D - owed
        IN /\ result.total_nights_booked =
                  SumOver(counted, [i \in counted |->
                      NightsInWindow(bookings[i], args.start_date, args.end_date)])
           /\ result.total_revenue % 10 = 0
           /\ off * 2 <= 10 * D /\ 0 - off * 2 <= 10 * D
           /\ (/\ Len(bookings) = 1
               /\ bookings[1].check_in = isoformat(Mar(1))
               /\ bookings[1].check_out = isoformat(Mar(4))
               /\ bookings[1].status # "cancelled"
               /\ args = [property_id |-> bookings[1].property_id,
                          start_date |-> Mar(2), end_date |-> Mar(3)])
              => /\ result.total_nights_booked = 1
                 /\ result.total_revenue = Round2(bookings[1].total_payout, 3)

\* the March 1..4 stay next to a cancelled one, over [March 2, March 3)
C4_Witness ==
    /\ op = "calculate_property_metrics"
    /\ args = [property_id |-> "prop_001", start_date |-> Mar(2), end_date |-> Mar(3)]
    /\ Len(bookings) = 2
    /\ bookings[1].check_in = isoformat(Mar(1)) /\ bookings[1].check_out = isoformat(Mar(4))
    /\ bookings[1].total_payout = 339500
    /\ bookings[2].status = "cancelled" /\ bookings[2].property_id = "prop_001"
    /\ result.total_nights_booked = 1
    /\ result.total_revenue = 113170

RECURSIVE WalkInCheckInOrder(_, _, _)
\* the walk as the claim words it, over the ledger positions in S, the
\* earliest check-in first: [gaps, current]
WalkInCheckInOrder(bs, S, cursor) ==
    IF S = {} THEN [gaps |-> <<>>, current |-> cursor]
    ELSE LET i == CHOOSE k \in S : \A j \in S :
                      \/ _parse_date(bs[k].check_in) < _parse_date(bs[j].check_in)
                      \/ (_parse_date(bs[k].check_in) = _parse_date(bs[j].check_in) /\ k <= j)
             b_in == _parse_date(bs[i].check_in)
             b_out == _parse_date(bs[i].check_out)
             rest == WalkInCheckInOrder(bs, S \ {i}, Max(cursor, b_out))
         IN [rest EXCEPT !.gaps = (IF b_in > cursor THEN <<Gap(cursor, b_in)>> ELSE <<>>) \o @]

GapsInCheckInOrder(bs, property_id, lookahead_days, td) ==
    LET w == WalkInCheckInOrder(bs, Counted(bs, property_id), td)
    IN IF w.current < td + lookahead_days
       THEN Append(w.gaps, Gap(w.current, td + lookahead_days))
       ELSE w.gaps

GapsAsWalked ==
    op = "get_gap_nights" =>
        result = GapsInCheckInOrder(bookings, args.property_id, args.lookahead_days, today)

\* C5: get_gap_nights walks the property's non-cancelled bookings in check-in
\* order with a cursor starting at today, emits [cursor, check_in) exactly
\* when check_in is after the cursor, advances the cursor to max(cursor,
\* check_out), and emits [cursor, window end) iff the cursor is before the
\* window end.
C5_GapWalk == GapsAsWalked

\* C5 on the ledgers whose dates are all written YYYY-MM-DD
C5_OnIsoLedgers ==
    (\A i \in 1 .. Len(bookings) :
        bookings[i].check_in.fmt \in {"iso", "junk", "empty"})
        => GapsAsWalked

\* C5, the example: stays [Mar 1, Mar 3) and [Mar 6, Mar 9), today Mar 1, window
\* end Mar 10: the gaps are [Mar 3, Mar 6) of 3 nights and [Mar 9, Mar 10) of 1
C5_Example ==
    (/\ op = "get_gap_nights"
     /\ today = Mar(1) /\ args.lookahead_days = 9 /\ Len(bookings) = 2
     /\ \E i, j \in 1 .. 2 :
           /\ bookings[i].check_in = isoformat(Mar(1)) /\ bookings[i].check_out = isoformat(Mar(3))
           /\ bookings[j].check_in = isoformat(Mar(6)) /\ bookings[j].check_out = isoformat(Mar(9))
           /\ bookings[i].property_id = args.property_id
           /\ bookings[j].property_id = args.property_id
           /\ bookings[i].status # "cancelled" /\ bookings[j].status # "cancelled")
    => result = <<[start |-> isoformat(Mar(3)), end |-> isoformat(Mar(6)), nights |-> 3],
                  [start |-> isoformat(Mar(9)), end |-> isoformat(Mar(10)), nights |-> 1]>>

\* amount (mills, a whole number of cents) is num/den mills rounded to the cent
NearestCent(amount, num, den) ==
    /\ amount % 10 = 0
    /\ (amount * den - num) * 2 <= 10 * den
    /\ (num - amount * den) * 2 <= 10 * den

\* <<payout, fee>> is what the rule gives for these rate, nights, cleaning fee
\* and fee rate (a percentage)
ByPayoutRule(pay, rate, nights, clean, pct) ==
    LET gross == rate * nights + clean
    IN /\ NearestCent(pay[2], gross * pct, 100)
       /\ NearestCent(pay[1], gross * 100 - gross * pct, 100)

PayoutRule ==
    /\ \A rate \in {100000, 165000, 99990, 50}, nights \in 0 .. 4,
          clean \in {0, 50000, 85500}, pct \in {DefaultFeePct, 15} :
          ByPayoutRule(calculate_payout(rate, nights, clean, pct), rate, nights, clean, pct)
    /\ calculate_payout(100000, 3, 50000, DefaultFeePct) = <<339500, 10500>>

\* a booking is priced by the rule at the default 3% from its own rate, nights
\* and cleaning fee
PricedByRule(b) ==
    ByPayoutRule(<<b.total_payout, b.platform_fee>>, b.nightly_rate, b.num_nights,
                 b.cleaning_fee, 3)

\* C6: calculate_payout returns platform_fee = (rate x nights + cleaning_fee) x
\* fee_rate and payout = gross - platform_fee, each rounded to cents; 100, 3,
\* 50 at 3% give gross 350, fee 10.50, payout 339.50; and every booking a
\* handler appends, added by hand or imported from iCal, is priced by that
\* rule at 3%.
C6_PayoutRule ==
    /\ []PayoutRule
    /\ [][\A i \in (Len(bookings) + 1) .. Len(bookings') : PricedByRule(bookings'[i])]_vars

\* a ledger that holds a booking added by hand (2 nights at 100: fee 7.50) and
\* then the imported 3-night stay of the example
C6_Witness ==
    /\ op \in {"import_url", "import_paste"}
    /\ result.imported = 1
    /\ Len(bookings) = 2
    /\ bookings[1].guest_name = Text.NAME_Bo /\ bookings[1].platform_fee = 7500
    /\ bookings[1].total_payout = 242500
    /\ bookings[2].num_nights = 3 /\ bookings[2].platform_fee = 10500
    /\ bookings[2].total_payout = 339500

-----------------------------------------------------------------------------
(* The Schedule E summary of the tax view                                   *)

MaxExpenses == 2      \* the most expenses in the expense list

\* payouts of a whole number of cents, odd and even; a stay over New Year and
\* a stay that begins before 2025 and ends after it
TaxBookings ==
    {SheetBooking("prop_001", Text.NAME_Ann, isoformat(Mar(1)), isoformat(Mar(3)), 100250, "checked_out"),
     SheetBooking("prop_001", Text.NAME_Bo, isoformat(Mar(6)), isoformat(Mar(9)), 242500, "confirmed"),
     SheetBooking("prop_002", Text.NAME_Bo, isoformat(Mar(1)), isoformat(Mar(3)), 470450, "cancelled"),
     SheetBooking("prop_001", Text.NAME_Ann, isoformat(Date(2025, 12, 30)),
                  isoformat(Date(2026, 1, 2)), 300000, "checked_out"),
     SheetBooking("prop_001", Text.NAME_Bo, isoformat(Date(2024, 12, 30)),
                  isoformat(Date(2026, 1, 2)), 900000, "checked_out")}

\* amounts of whole cents, of an eighth of a dollar and of half a cent
TaxExpenses ==
    {Expense("prop_001", isoformat(Mar(5)), "Cleaning", 85000),
     Expense("prop_001", isoformat(Mar(5)), "Supplies (Guest)", 125),
     Expense("prop_001", DateStr("us", Mar(7)), "Pool", 19990),
     Expense("prop_002", isoformat(Mar(5)), "Mortgage Interest", 5),
     Expense("prop_001", isoformat(Date(2025, 12, 31)), "Utilities (Gas)", 40000)}

\* the tax view: one summary per property for the chosen year
TaxScheduleE ==
    /\ op = "start"
    /\ \E prop \in PropSet, tax_year \in TaxYears :
          /\ args' = [property_data |-> prop, expenses |-> args.expenses,
                      tax_year |-> tax_year]
          /\ result' = generate_schedule_e_summary(prop, bookings, args.expenses, tax_year)
    /\ op' = "generate_schedule_e_summary"
    /\ UNCHANGED <<bookings, today>>

InitSchedE ==
    /\ bookings \in SeqsUpTo(TaxBookings, MaxLedger)
    /\ today = Mar(2)
    /\ op = "start"
    /\ \E expenses \in SeqsUpTo(TaxExpenses, MaxExpenses) : args = [expenses |-> expenses]
    /\ result = NoResult

NextSchedE == TaxScheduleE

SpecSchedE == InitSchedE /\ [][NextSchedE]_vars

\* C7: for every property, ledger, expense list and tax year the summary
\* satisfies net_income + total_expenses = line_3_rents exactly, also when
\* amounts carry fractions of a cent.
C7_TotalsAddUp ==
    op = "generate_schedule_e_summary" =>
        result.net_income + result.total_expenses = result.line_3_rents

\* C7 holds when every amount that enters the lines is a whole number of cents
C7_OnWholeCents ==
    (/\ op = "generate_schedule_e_summary"
     /\ \A i \in 1 .. Len(args.expenses) : args.expenses[i].amount % 10 = 0
     /\ args.property_data.property_tax_annual % 10 = 0)
    => result.net_income + result.total_expenses = result.line_3_rents

-----------------------------------------------------------------------------
(* Material participation                                                   *)

MaxEntries == 3       \* the most time entries in the log

TimeEntry(date, hours, pid, category) ==
    [date |-> date, hours |-> hours, property_id |-> pid, category |-> category]

\* 100 h, 99.96 h, 0.04 h, a quarter and an eighth of an hour, 450 h; an entry
\* of the year before and one whose date is no date
TimeEntries ==
    {TimeEntry(isoformat(Mar(1)), 100000, "prop_001", "Cleaning"),
     TimeEntry(isoformat(Mar(1)), 99960, "prop_001", "Guest Communication"),
     TimeEntry(DateStr("us", Date(2026, 1, 1)), 40, "prop_002", "Cleaning"),
     TimeEntry(isoformat(Date(2026, 12, 31)), 250, "prop_002", "Other"),
     TimeEntry(isoformat(Mar(2)), 125, "prop_001", "Other"),
     TimeEntry(isoformat(Date(2026, 2, 28)), 450000, "prop_001", "Maintenance"),
     TimeEntry(isoformat(Date(2025, 12, 31)), 50000, "prop_001", "Cleaning"),
     TimeEntry(JunkStr, 500000, "prop_001", "Cleaning")}

MaterialParticipation ==
    /\ op = "start"
    /\ \E tax_year \in TaxYears :
          /\ args' = [time_entries |-> args.time_entries, tax_year |-> tax_year]
          /\ result' = calculate_material_participation(args.time_entries, tax_year, today)
    /\ op' = "calculate_material_participation"
    /\ UNCHANGED <<bookings, today>>

InitMP ==
    /\ bookings = <<>>
    /\ today \in {Mar(2), Date(2026, 12, 28), Date(2026, 12, 31)}
    /\ op = "start"
    /\ \E time_entries \in SeqsUpTo(TimeEntries, MaxEntries) :
          args = [time_entries |-> time_entries]
    /\ result = NoResult

NextMP == MaterialParticipation

SpecMP == InitMP /\ [][NextMP]_vars

\* the hours (thousandths) of the entries dated in the tax year
HoursInYear(time_entries, tax_year) ==
    SumOver({i \in 1 .. Len(time_entries) :
                /\ time_entries[i].date.fmt \in {"iso", "us", "usdash"}
                /\ Date(tax_year, 1, 1) <= time_entries[i].date.d
                /\ time_entries[i].date.d <= Date(tax_year, 12, 31)},
            [i \in 1 .. Len(time_entries) |-> time_entries[i].hours])

\* the claim as worded: percent and hours needed are the exact quotient and
\* difference.  pct is in tenths of a percent: pct / 10 = total / T * 100
UnroundedTest(total, T, met, pct, needed) ==
    /\ met <=> total >= T * 1000
    /\ pct * T = Min(1000 * T, total)
    /\ needed = Max(T * 1000 - total, 0)

\* C8 as claimed: for each threshold T, met iff total >= T, percent =
\* min(100, total / T x 100), hours needed = max(T - total, 0), over the
\* entries dated in the tax year.
C8_Unrounded ==
    op = "calculate_material_participation" =>
        LET total == HoursInYear(args.time_entries, args.tax_year)
        IN /\ UnroundedTest(total, 100, result.test_3_met, result.test_3_pct,
                            result.test_3_hours_needed)
           /\ UnroundedTest(total, 500, result.test_1_met, result.test_1_pct,
                            result.test_1_hours_needed)

\* percent is min(100, total / T x 100 rounded to one decimal) and hours needed
\* is max(T - total, 0) rounded to two decimals
RoundedTest(total, T, met, pct, needed) ==
    /\ met <=> total >= T * 1000
    /\ \E r \in 0 .. (total \div T) + 1 :
          /\ (r * T - total) * 2 <= T /\ (total - r * T) * 2 <= T
          /\ pct = Min(1000, r)
    /\ needed % 10 = 0
    /\ (needed - Max(T * 1000 - total, 0)) * 2 <= 10
    /\ (Max(T * 1000 - total, 0) - needed) * 2 <= 10

\* C8, amended: the two tests are evaluated independently over the entries
\* dated in the tax year; for each threshold T, met iff total >= T, percent =
\* min(100, total / T x 100 rounded to one decimal), hours needed = max(T -
\* total, 0) rounded to two decimals; exactly 100.0 hours give met, 100 and 0;
\* entries dated in other years contribute nothing.
C8_RoundedTests ==
    op = "calculate_material_participation" =>
        LET total == HoursInYear(args.time_entries, args.tax_year)
        IN /\ RoundedTest(total, 100, result.test_3_met, result.test_3_pct,
                          result.test_3_hours_needed)
           /\ RoundedTest(total, 500, result.test_1_met, result.test_1_pct,
                          result.test_1_hours_needed)
           /\ total = 100000 =>
                 /\ result.test_3_met /\ result.test_3_pct = 1000
                 /\ result.test_3_hours_needed = 0
                 /\ ~result.test_1_met /\ result.test_1_pct = 200
                 /\ result.test_1_hours_needed = 400000

\* 99.96 h and 0.04 h in 2026 and 50 h dated 2025: exactly 100.0 hours count
C8_Witness ==
    /\ op = "calculate_material_participation"
    /\ args.tax_year = 2026
    /\ Len(args.time_entries) = 3
    /\ \E i, j, k \in 1 .. 3 :
          /\ args.time_entries[i].hours = 99960
          /\ args.time_entries[j].hours = 40
          /\ args.time_entries[k].date = isoformat(Date(2025, 12, 31))
    /\ result.test_3_met /\ result.test_3_pct = 1000 /\ result.test_3_hours_needed = 0
    /\ ~result.test_1_met

\* the actions of one priority, in the order they were emitted
Tier(emitted, priority) == SelectSeq(emitted, LAMBDA a : a.priority = priority)

\* C9: the actions returned by generate_daily_briefing are all the high-priority
\* actions, then all the medium, then all the low, each tier in the order its
\* actions were emitted; the ordering adds, drops and duplicates nothing.
C9_StableByPriority ==
    op = "generate_daily_briefing" =>
        LET emitted == EmittedActions(properties, bookings, args.maintenance_items,
                                      today).actions
        IN result.actions =
               Tier(emitted, "high") \o Tier(emitted, "medium") \o Tier(emitted, "low")

\* two different low actions were emitted first, a medium and a high after
\* them; the briefing lists the high, the medium, then the lows in their order
C9_Witness ==
    /\ op = "generate_daily_briefing"
    /\ LET emitted == EmittedActions(properties, bookings, args.maintenance_items,
                                     today).actions
       IN /\ Len(emitted) = 4
          /\ emitted[1].priority = "low" /\ emitted[2].priority = "low"
          /\ emitted[1] # emitted[2]
          /\ emitted[3].priority = "medium" /\ emitted[4].priority = "high"
          /\ result.actions = <<emitted[4], emitted[3], emitted[1], emitted[2]>>

\* C10: for every ledger and every cancelled booking in it, generate_daily_briefing,
\* calculate_property_metrics, calculate_portfolio_metrics, get_gap_nights and
\* generate_schedule_e_summary return on the ledger what they return on the
\* ledger without that booking.
C10_CancelledExcluded ==
    \A i \in 1 .. Len(bookings) :
        bookings[i].status = "cancelled" =>
            LET without == RemoveAt(bookings, i)
            IN /\ op = "generate_daily_briefing" =>
                     result = generate_daily_briefing(properties, without,
                                                      args.maintenance_items, today)
               /\ op = "calculate_property_metrics" =>
                     result = calculate_property_metrics(without, args.property_id,
                                                         args.start_date, args.end_date)
               /\ op = "calculate_portfolio_metrics" =>
                     result = calculate_portfolio_metrics(without, properties,
                                                          args.start_date, args.end_date)
               /\ op = "get_gap_nights" =>
                     result = get_gap_nights(without, args.property_id,
                                             args.lookahead_days, today)
               /\ op = "generate_schedule_e_summary" =>
                     result = generate_schedule_e_summary(args.property_data, without,
                                                          args.expenses, args.tax_year)

\* a briefing for March 3 over a cancelled stay that would check in that day
\* and a live stay that does
C10_Witness ==
    /\ op = "generate_daily_briefing"
    /\ today = Mar(3)
    /\ Len(bookings) = 2
    /\ bookings[1].status = "cancelled" /\ bookings[1].check_in = isoformat(Mar(3))
    /\ bookings[2].status # "cancelled" /\ bookings[2].check_in = isoformat(Mar(3))
    /\ Len(result.check_ins_today) = 1
    /\ result.check_ins_today[1].booking = bookings[2]

-----------------------------------------------------------------------------
(* fetch_ical_from_url over a network, and the handler that calls it        *)

MaxAttempts == 2    \* the attempts the network is ready to answer

\* what urlopen does at one attempt: it raises e, or it serves a text
Raises(e) == [raises |-> TRUE, e |-> e]
Serves(text) == [raises |-> FALSE, text |-> text]

Responses ==
    {Raises("timed out"), Raises("HTTP Error 404: Not Found")}
        \cup {Serves(t) : t \in ImportTexts}

\* a network: its answers to the first, second, ... attempt
Networks == UNION {[1 .. k -> Responses] : k \in 1 .. MaxAttempts}

\* f"ERROR: {e}"
ErrorOf(e) == [head |-> "ERROR:", detail |-> e, events |-> <<>>, lines |-> <<>>]

\* (mutant) a second attempt after a failed first one
fetch_ical_from_url_retry(network) ==
    LET resp == IF network[1].raises /\ Len(network) > 1 THEN network[2]
                ELSE network[1]
    IN IF resp.raises THEN ErrorOf(resp.e) ELSE resp.text

\* fetch_ical_from_url: one urlopen; the text served, or "ERROR: ..." for
\* whatever it raised
fetch_ical_from_url(network) ==
    LET resp == network[1]
    IN IF resp.raises THEN ErrorOf(resp.e) ELSE resp.text

\* Import from URL, the URL answered by args.network
FetchAndImport ==
    /\ op = "start"
    /\ \E ical_text \in {fetch_ical_from_url(args.network)} :
          \E r \in {IF starts_with_ERROR(ical_text) THEN FetchFailed
                    ELSE ImportResult(bookings, ical_text, args.prop,
                                      Lit.PLAT_Airbnb, today)} :
             /\ bookings' = bookings \o r.unique
             /\ op' = "import_url"
             /\ result' = [ical_text |-> ical_text, report |-> Report(r),
                           ledger |-> bookings]
             /\ UNCHANGED <<today, args>>

InitFetch ==
    /\ bookings \in InitialLedgers
    /\ today = Mar(2)
    /\ op = "start"
    /\ args \in [network : Networks, prop : PropSet]
    /\ result = NoResult

NextFetch == FetchAndImport

SpecFetch == InitFetch /\ [][NextFetch]_vars

\* the first attempt failed, or served something that is no calendar
FirstAttemptFails(network) ==
    network[1].raises \/ ~has_VCALENDAR(network[1].text)

-----------------------------------------------------------------------------
(* parse_ical: events that are dropped                                      *)

\* <<start, end>> as ISO strings of the feed events whose dates parse
RECURSIVE ParseableStays(_)
ParseableStays(events) ==
    IF events = <<>> THEN <<>>
    ELSE LET e == Head(events)
         IN (IF DateParses(e.dtstart) /\ DateParses(e.dtend)
             THEN << <<isoformat(e.dtstart.d), isoformat(e.dtend.d)>> >>
             ELSE <<>>) \o ParseableStays(Tail(events))

\* all is a and b shuffled together, each in its own order
RECURSIVE IsMerge(_, _, _)
IsMerge(all, a, b) ==
    IF all = <<>> THEN a = <<>> /\ b = <<>>
    ELSE \/ a # <<>> /\ Head(a) = Head(all) /\ IsMerge(Tail(all), Tail(a), b)
         \/ b # <<>> /\ Head(b) = Head(all) /\ IsMerge(Tail(all), a, Tail(b))

\* C12: for every feed, the events whose start and end dates parse yield
\* exactly one record each, a booking or a blocked record, both lists in feed
\* order, whatever events with a missing or unparseable date the feed holds
\* besides them: those yield nothing; an empty feed yields two empty lists.
C12_DroppedEvents ==
    op = "parse_ical" =>
        /\ IsMerge(ParseableStays(args.events), BookedStays(result.bookings),
                   BlockedStays(result.blocked))
        /\ args.events = <<>> => result.bookings = <<>> /\ result.blocked = <<>>

\* a feed whose first event has no readable start date and whose second has
\* both dates: one record, that of the second
C12_Witness ==
    /\ op = "parse_ical"
    /\ Len(args.events) = 2
    /\ args.events[1].dtstart = JunkStr
    /\ DateParses(args.events[2].dtstart) /\ DateParses(args.events[2].dtend)
    /\ Len(result.bookings) + Len(result.blocked) = 1
    /\ Len(result.bookings) = 1 =>
           result.bookings[1].check_in = isoformat(args.events[2].dtstart.d)
    /\ Len(result.blocked) = 1 =>
           result.blocked[1].start = isoformat(args.events[2].dtstart.d)

-----------------------------------------------------------------------------
(* generate_id and the booking_id of the bookings of one parse_ical batch   *)

\* a reading of datetime.now(): the second it falls in and the microsecond
Now(sec, usec) == [sec |-> sec, usec |-> usec]

\* the clock delta microseconds after the reading at
Tick(at, delta) ==
    Now(at.sec + ((at.usec + delta) \div 1000000), (at.usec + delta) % 1000000)

\* the six digits of %f
MicroDigits(usec) ==
    <<(usec \div 100000) % 10, (usec \div 10000) % 10, (usec \div 1000) % 10,
      (usec \div 100) % 10, (usec \div 10) % 10, usec % 10>>

\* generate_id: strftime("%Y%m%d%H%M%S%f")[:18], the 14 characters of the
\* second followed by the first four digits of the microsecond
generate_id(now) == <<now.sec>> \o SubSeq(MicroDigits(now.usec), 1, 4)

\* the bookings of a batch with the booking_id _process_ical_event gives them:
\* the i-th booking materialized reads the clock at clock[i]
StampIds(batch, clock) ==
    [i \in 1 .. Len(batch) |->
        [f \in (DOMAIN batch[i]) \cup {"booking_id"} |->
            IF f = "booking_id" THEN generate_id(clock[i]) ELSE batch[i][f]]]

\* the time from one generate_id call of a batch to the next, in microseconds
CallGaps == {40, 100, 1000}

\* the readings of a batch that starts at start, its calls gaps[i] apart
RECURSIVE ClockReadings(_, _)
ClockReadings(start, gaps) ==
    IF gaps = <<>> THEN <<start>>
    ELSE <<start>> \o ClockReadings(Tick(start, Head(gaps)), Tail(gaps))

ParseBatch ==
    /\ op = "start"
    /\ \E r \in {parse_ical(FeedLines(args.events), args.prop.property_id, Lit.PLAT_Airbnb,
                           args.prop.base_nightly_rate, args.prop.cleaning_fee, today)} :
          result' = [bookings |-> StampIds(r[1], args.clock), blocked |-> r[2]]
    /\ op' = "parse_ical_ids"
    /\ UNCHANGED <<bookings, today, args>>

InitIds ==
    /\ bookings = <<>>
    /\ today = Mar(2)
    /\ op = "start"
    /\ \E events \in SeqsUpTo({Ev.Reserved, Ev.AnnCode, Ev.Owner, Ev.Junk}, MaxFeedEvents),
          start \in {Now(0, 0), Now(0, 999950)},
          gaps \in [1 .. MaxFeedEvents -> CallGaps] :
          args = [events |-> events, prop |-> Prop1,
                  clock |-> ClockReadings(start, gaps), gaps |-> gaps]
    /\ result = NoResult

NextIds == ParseBatch

SpecIds == InitIds /\ [][NextIds]_vars

\* C13: no two bookings of one parse_ical batch share a booking_id.
C13_IdsUnique ==
    op = "parse_ical_ids" =>
        \A i, j \in 1 .. Len(result.bookings) :
            i # j => result.bookings[i].booking_id # result.bookings[j].booking_id

\* C13 on the batches whose generate_id calls are at least 100 microseconds
\* apart
C13_WhenSpaced ==
    (\A i \in 1 .. Len(args.gaps) : args.gaps[i] >= 100) => C13_IdsUnique

-----------------------------------------------------------------------------
(* Briefing: dangling property references                                   *)

Dangling(property_id) ==
    \A i \in 1 .. Len(properties) : properties[i].property_id # property_id

\* the property label in the text of an action
PropertyLabel(a) ==
    IF a.type \in {"check_in", "checkout"} THEN a.text[3] ELSE a.text[Len(a.text)]

\* the entries of the briefing's booking lists
BriefingEntries(br) ==
    {br.check_ins_today[i] : i \in 1 .. Len(br.check_ins_today)}
        \cup {br.check_ins_tomorrow[i] : i \in 1 .. Len(br.check_ins_tomorrow)}
        \cup {br.check_outs_today[i] : i \in 1 .. Len(br.check_outs_today)}
        \cup {br.turnovers_needed[i] : i \in 1 .. Len(br.turnovers_needed)}
        \cup {[booking |-> br.active_stays[i].booking,
               property |-> br.active_stays[i].property] :
                  i \in 1 .. Len(br.active_stays)}

\* C14: in every briefing, each entry and each action text emitted for a
\* booking or a maintenance item whose property_id matches no property of the
\* snapshot carries the label "Unknown".
C14_UnknownLabel ==
    op = "generate_daily_briefing" =>
        /\ \A e \in BriefingEntries(result) :
              Dangling(e.booking.property_id) => e.property = "Unknown"
        /\ \A i \in 1 .. Len(result.actions) :
              Dangling(result.actions[i].property_id) =>
                  PropertyLabel(result.actions[i]) = "Unknown"

\* C14 on what is emitted for bookings
C14_OnBookings ==
    op = "generate_daily_briefing" =>
        /\ \A e \in BriefingEntries(result) :
              Dangling(e.booking.property_id) => e.property = "Unknown"
        /\ \A i \in 1 .. Len(result.actions) :
              Dangling(result.actions[i].property_id)
                  /\ result.actions[i].type # "maintenance" =>
                      PropertyLabel(result.actions[i]) = "Unknown"

-----------------------------------------------------------------------------
(* Pricing suggestions                                                      *)

\* what one gap adds to the suggestions; the message is kept as the figures
\* it prints, prices in whole dollars
Suggestion(gap, base, today_date) ==
    LET gs == _parse_date(gap.start)
        days_until == IF gs # NoDate THEN gs - today_date ELSE 0
    IN IF gap.nights <= 2 /\ days_until <= 7
       THEN <<[type |-> "discount", nights |-> gap.nights, start |-> gap.start,
               price |-> RoundHalfEven(base * 85, 100000),
               reason |-> "Short gap close to date"]>>
       ELSE IF gap.nights >= 7 /\ days_until <= 3
       THEN <<[type |-> "urgent", nights |-> gap.nights, days_until |-> days_until,
               price |-> RoundHalfEven(base * 75, 100000),
               reason |-> "Long vacancy imminent"]>>
       ELSE <<>>

RECURSIVE Suggestions(_, _, _)
Suggestions(gaps, base, today_date) ==
    IF gaps = <<>> THEN <<>>
    ELSE Suggestion(Head(gaps), base, today_date)
             \o Suggestions(Tail(gaps), base, today_date)

get_pricing_suggestions(bs, property_data, lookahead_days, today_date) ==
    Suggestions(get_gap_nights(bs, property_data.property_id, lookahead_days, today_date),
                property_data.base_nightly_rate, today_date)

-----------------------------------------------------------------------------
(* The engine operations called on inputs the caller keeps                  *)

\* The caller holds the ledger in bookings and the other lists and records in
\* args; an operation reads them, builds its result from new lists and
\* records, and assigns to none of them.

\* the stays the ledgers are made of: not in check-in order, one cancelled
EngineBookings ==
    {SheetBooking("prop_001", Text.NAME_Bo, isoformat(Mar(6)), isoformat(Mar(9)), 339500, "confirmed"),
     SheetBooking("prop_001", Text.NAME_Ann, isoformat(Mar(1)), isoformat(Mar(3)), 242500, "checked_out"),
     SheetBooking("prop_002", Text.NAME_Ann, isoformat(Mar(3)), isoformat(Mar(5)), 500000, "cancelled")}

EngineBriefing ==
    /\ op = "start"
    /\ result' = generate_daily_briefing(args.properties, bookings,
                                         args.maintenance_items, today)
    /\ op' = "generate_daily_briefing"
    /\ UNCHANGED <<bookings, today, args>>

EnginePropertyMetrics ==
    /\ op = "start"
    /\ \E prop \in PropSet :
          result' = calculate_property_metrics(bookings, prop.property_id,
                                               Mar(1), Mar(10))
    /\ op' = "calculate_property_metrics"
    /\ UNCHANGED <<bookings, today, args>>

EnginePortfolioMetrics ==
    /\ op = "start"
    /\ result' = calculate_portfolio_metrics(bookings, args.properties, Mar(1), Mar(10))
    /\ op' = "calculate_portfolio_metrics"
    /\ UNCHANGED <<bookings, today, args>>

\* (mutant) the ledger sorted in place, bookings.sort(key=...), where the code
\* sorts a new list
EngineGapNights_sorts ==
    /\ op = "start"
    /\ \E prop \in PropSet :
          result' = get_gap_nights(bookings, prop.property_id, 9, today)
    /\ op' = "get_gap_nights"
    /\ bookings' = SortedByCheckIn(bookings)
    /\ UNCHANGED <<today, args>>

EngineGapNights ==
    /\ op = "start"
    /\ \E prop \in PropSet :
          result' = get_gap_nights(bookings, prop.property_id, 9, today)
    /\ op' = "get_gap_nights"
    /\ UNCHANGED <<bookings, today, args>>

EnginePricing ==
    /\ op = "start"
    /\ \E i \in 1 .. Len(args.properties) :
          result' = get_pricing_suggestions(bookings, args.properties[i], 14, today)
    /\ op' = "get_pricing_suggestions"
    /\ UNCHANGED <<bookings, today, args>>

EngineParticipation ==
    /\ op = "start"
    /\ result' = calculate_material_participation(args.time_entries, 2026, today)
    /\ op' = "calculate_material_participation"
    /\ UNCHANGED <<bookings, today, args>>

EngineScheduleE ==
    /\ op = "start"
    /\ \E i \in 1 .. Len(args.properties) :
          result' = generate_schedule_e_summary(args.properties[i], bookings,
                                                args.expenses, 2026)
    /\ op' = "generate_schedule_e_summary"
    /\ UNCHANGED <<bookings, today, args>>

EngineParse ==
    /\ op = "start"
    /\ \E r \in {parse_ical(args.ical_text, "prop_001", Lit.PLAT_Airbnb, 100000, 50000,
                           today)} :
          result' = [bookings |-> r[1], blocked |-> r[2]]
    /\ op' = "parse_ical"
    /\ UNCHANGED <<bookings, today, args>>

EngineDeduplicate ==
    /\ op = "start"
    /\ \E r \in {deduplicate_ical_bookings(bookings, args.new_bookings)} :
          result' = [unique |-> r[1], dupes |-> r[2]]
    /\ op' = "deduplicate_ical_bookings"
    /\ UNCHANGED <<bookings, today, args>>

InitEngine ==
    /\ bookings \in SeqsUpTo(EngineBookings, MaxLedger)
    /\ today = Mar(3)
    /\ op = "start"
    /\ args \in [properties : {properties},
                 maintenance_items : MaintenanceLists,
                 expenses : ExpenseLists,
                 time_entries : {<<>>, <<TimeEntry(isoformat(Mar(2)), 125, "prop_001", "Other"),
                                         TimeEntry(isoformat(Mar(1)), 100000, "prop_001",
                                                   "Cleaning")>>},
                 ical_text : {FeedLines(<<Ev.AnnCode, Ev.Owner>>)},
                 new_bookings : SeqsUpTo(EngineBookings, 1)]
    /\ result = NoResult

NextEngine ==
    \/ EngineBriefing \/ EnginePropertyMetrics \/ EnginePortfolioMetrics
    \/ EngineGapNights \/ EnginePricing \/ EngineParticipation
    \/ EngineScheduleE \/ EngineParse \/ EngineDeduplicate

SpecEngine == InitEngine /\ [][NextEngine]_vars

EngineOps ==
    {"generate_daily_briefing", "calculate_property_metrics",
     "calculate_portfolio_metrics", "get_gap_nights", "get_pricing_suggestions",
     "calculate_material_participation", "generate_schedule_e_summary", "parse_ical",
     "deduplicate_ical_bookings"}

-----------------------------------------------------------------------------
(* Occupancy rate of a property over a window                               *)

\* the rate, in tenths of a percent, is nights / days x 100 to one decimal
\* (either neighbour at an exact tie)
IsRateOf(rate, nights, days) ==
    /\ (rate * days - nights * 1000) * 2 <= days
    /\ (nights * 1000 - rate * days) * 2 <= days

\* C16: the occupancy_rate returned by calculate_property_metrics is the
\* overlapping nights divided by the window length in days (a window with end
\* <= start counts as one day) and lies between 0 and 100 percent, for every
\* ledger and window.
C16_OccupancyInRange ==
    op = "calculate_property_metrics" =>
        /\ IsRateOf(result.occupancy_rate, result.total_nights_booked,
                    Max(args.end_date - args.start_date, 1))
        /\ 0 <= result.occupancy_rate /\ result.occupancy_rate <= 1000

\* no two counted stays of the property share a night
NoDoubleBooking(bs, property_id) ==
    \A i, j \in Counted(bs, property_id) :
        i # j =>
            \/ _parse_date(bs[i].check_out) <= _parse_date(bs[j].check_in)
            \/ _parse_date(bs[j].check_out) <= _parse_date(bs[i].check_in)

\* C16 on the ledgers in which the property is never double-booked
C16_WithoutDoubleBooking ==
    (op = "calculate_property_metrics" /\ ~NoDoubleBooking(bookings, args.property_id))
        \/ C16_OccupancyInRange

-----------------------------------------------------------------------------
(* Briefing: occupancy tonight                                              *)

ActiveProperties == {properties[i].property_id : i \in {j \in 1 .. Len(properties) :
                                                           properties[j].status = "active"}}

\* the properties with a non-cancelled stay over the night of td
OccupiedOn(bs, td) ==
    {bs[i].property_id : i \in {j \in 1 .. Len(bs) :
        /\ bs[j].status # "cancelled"
        /\ _parse_date(bs[j].check_in) # NoDate /\ _parse_date(bs[j].check_out) # NoDate
        /\ _parse_date(bs[j].check_in) <= td /\ td < _parse_date(bs[j].check_out)}}

\* C17: the briefing's occupancy_rate is 100 x (active properties with a
\* non-cancelled stay over tonight) / (active properties), so a stay at a
\* property that is not active or not known does not count and the rate never
\* exceeds 100.
C17_OccupancyTonight ==
    op = "generate_daily_briefing" =>
        LET occupied == OccupiedOn(bookings, today) \cap ActiveProperties
        IN /\ result.occupancy_rate.num * Cardinality(ActiveProperties)
                  = 100 * Cardinality(occupied) * result.occupancy_rate.den
           /\ result.occupancy_rate.num <= 100 * result.occupancy_rate.den

\* C17 on the days when every ongoing stay is at an active property
C17_OnActiveStays ==
    (op = "generate_daily_briefing" /\ ~(OccupiedOn(bookings, today) \subseteq ActiveProperties))
        \/ C17_OccupancyTonight

-----------------------------------------------------------------------------
(* Schedule E: the seeded lines and the expenses folded into them           *)

\* the expenses (positions) of the property dated in the tax year
YearExpenses(expenses, pid, tax_year) ==
    {i \in 1 .. Len(expenses) :
        /\ expenses[i].property_id = pid
        /\ expenses[i].date.fmt \in {"iso", "us", "usdash"}
        /\ Date(tax_year, 1, 1) <= expenses[i].date.d
        /\ expenses[i].date.d <= Date(tax_year, 12, 31)}

\* a line is its seed plus the amounts of the year's expenses mapped to it
LinesAre(seed) ==
    LET mine == YearExpenses(args.expenses, args.property_data.property_id, args.tax_year)
    IN /\ \A l \in DOMAIN result.lines :
             result.lines[l] = seed[l] +
                 SumOver({i \in mine : cat_map(args.expenses[i].category) = l},
                         [i \in 1 .. Len(args.expenses) |-> args.expenses[i].amount])
       /\ \A i \in mine :
             cat_map(args.expenses[i].category) \in DOMAIN result.lines
       /\ \A i \in mine :
             args.expenses[i].category = "Pool" =>
                 cat_map(args.expenses[i].category) = "line_19_other"

\* C18: line_12_mortgage_int, line_9_insurance and line_16_taxes start from
\* the property's mortgage, insurance_annual and property_tax_annual figures
\* (to the cent) and every other line from 0; each expense of the property
\* dated in the tax year then adds its amount to exactly one line, to
\* line_19_other when its category has no line of its own.
C18_SeededLines ==
    op = "generate_schedule_e_summary" =>
        LinesAre([l \in DOMAIN result.lines |->
            IF l = "line_12_mortgage_int" THEN Round2(args.property_data.mortgage_payment, 1)
            ELSE IF l = "line_9_insurance" THEN Round2(args.property_data.insurance_annual, 1)
            ELSE IF l = "line_16_taxes" THEN Round2(args.property_data.property_tax_annual, 1)
            ELSE 0])

\* C18 with the mortgage interest line starting from 0
C18_InsuranceAndTaxes ==
    op = "generate_schedule_e_summary" =>
        LinesAre([l \in DOMAIN result.lines |->
            IF l = "line_9_insurance" THEN Round2(args.property_data.insurance_annual, 1)
            ELSE IF l = "line_16_taxes" THEN Round2(args.property_data.property_tax_annual, 1)
            ELSE 0])

-----------------------------------------------------------------------------
(* Schedule E: fair rental days and rents                                   *)

\* C19: fair_rental_days is the number of nights that the non-cancelled
\* bookings of the property have inside [Jan 1 of the tax year, Jan 1 of the
\* next), also for a booking that starts before the year and ends after it;
\* line_3_rents is the sum of total_payout (to the cent) over those whose
\* check-in falls in the year.
C19_FairRentalDays ==
    op = "generate_schedule_e_summary" =>
        LET counted == Counted(bookings, args.property_data.property_id)
            jan1 == Date(args.tax_year, 1, 1)
            next == Date(args.tax_year + 1, 1, 1)
            in_year == {i \in counted : jan1 <= _parse_date(bookings[i].check_in)
                                        /\ _parse_date(bookings[i].check_in) < next}
        IN /\ result.fair_rental_days =
                  SumOver(counted, [i \in 1 .. Len(bookings) |->
                                       NightsInWindow(bookings[i], jan1, next)])
           /\ result.line_3_rents =
                  Round2(SumOver(in_year, [i \in 1 .. Len(bookings) |->
                                              bookings[i].total_payout]), 1)

\* C19 on the ledgers whose stays each begin or end in the tax year, or lie
\* outside it altogether
C19_OnStaysTouchingTheYear ==
    (/\ op = "generate_schedule_e_summary"
     /\ \E i \in Counted(bookings, args.property_data.property_id) :
           /\ _parse_date(bookings[i].check_in) < Date(args.tax_year, 1, 1)
           /\ _parse_date(bookings[i].check_out) >= Date(args.tax_year + 1, 1, 1))
    \/ C19_FairRentalDays

-----------------------------------------------------------------------------
(* parse_ical: the Booking invariant                                        *)

\* check_in < check_out and num_nights = check_out - check_in in days
BookingInvariant(b) ==
    /\ _parse_date(b.check_in) # NoDate /\ _parse_date(b.check_out) # NoDate
    /\ _parse_date(b.check_in) < _parse_date(b.check_out)
    /\ b.num_nights = _parse_date(b.check_out) - _parse_date(b.check_in)

\* C20: every booking materialized by parse_ical has check_in < check_out and
\* num_nights = check_out - check_in, for every feed, also one with an event
\* whose end date equals or precedes its start date.
C20_BookingInvariant ==
    op = "parse_ical" =>
        \A i \in 1 .. Len(result.bookings) : BookingInvariant(result.bookings[i])

\* C20 on the feeds whose events with two dates all end after they start
C20_OnForwardEvents ==
    (/\ op = "parse_ical"
     /\ \E i \in 1 .. Len(args.events) :
           /\ DateParses(args.events[i].dtstart) /\ DateParses(args.events[i].dtend)
           /\ args.events[i].dtend.d <= args.events[i].dtstart.d)
    \/ C20_BookingInvariant

-----------------------------------------------------------------------------
(* _process_ical_event: the derived status                                  *)

\* future -> confirmed, ongoing -> checked_in, past -> checked_out
StatusByDates(b, td) ==
    LET check_in == _parse_date(b.check_in)
        check_out == _parse_date(b.check_out)
    IN /\ b.status = "confirmed" <=> check_in > td
       /\ b.status = "checked_in" <=> (check_in <= td /\ td < check_out)
       /\ b.status = "checked_out" <=> check_out <= td

\* the briefing of the same day lists the booking as an active stay
ListedActive(b, bs, td) ==
    LET br == generate_daily_briefing(properties, bs, <<>>, td)
    IN \E i \in 1 .. Len(br.active_stays) : br.active_stays[i].booking = b

\* C21: a booking materialized from a feed event is confirmed iff its check-in is
\* after today, checked_in iff check_in <= today < check_out, checked_out iff
\* check_out <= today, and so is checked_in exactly when the briefing of the
\* same today lists it as an active stay.
C21_StatusByDates ==
    op = "parse_ical" =>
        \A i \in 1 .. Len(result.bookings) :
            /\ StatusByDates(result.bookings[i], today)
            /\ result.bookings[i].status = "checked_in"
                   <=> ListedActive(result.bookings[i], result.bookings, today)

\* C21 for the bookings that do not end before they begin; the agreement with
\* the briefing holds for every booking
C21_OnOrderedStays ==
    op = "parse_ical" =>
        \A i \in 1 .. Len(result.bookings) :
            LET b == result.bookings[i]
            IN /\ _parse_date(b.check_in) <= _parse_date(b.check_out)
                      => StatusByDates(b, today)
               /\ b.status = "checked_in" <=> ListedActive(b, result.bookings, today)

-----------------------------------------------------------------------------
(* calculate_material_participation: the required weekly pace               *)

\* days left in the tax year after today_date, 0 outside the tax year
DaysRemaining(tax_year, today_date) ==
    IF YearOf(today_date) = tax_year
    THEN Max(Date(tax_year, 12, 31) - today_date, 0)
    ELSE 0

\* pace (thousandths of an hour per week) is needed / (days / 7) to two decimals
IsPaceOver(pace, needed, days) ==
    /\ (pace * days - needed * 7) * 2 <= 10 * days
    /\ (needed * 7 - pace * days) * 2 <= 10 * days

\* C22: the required weekly pace for each threshold T is (hours still needed
\* for T) / (weeks remaining in the tax year) whenever weeks remaining is
\* positive, also with fewer than 7 days remaining, and is a defined value when
\* zero weeks remain or today is outside the tax year.
C22_WeeklyPace ==
    op = "calculate_material_participation" =>
        LET total == HoursInYear(args.time_entries, args.tax_year)
            days == DaysRemaining(args.tax_year, today)
        IN /\ result.hours_per_week_for_100 \in Nat
           /\ result.hours_per_week_for_500 \in Nat
           /\ days > 0 =>
                 /\ IsPaceOver(result.hours_per_week_for_100,
                               Max(100000 - total, 0), days)
                 /\ IsPaceOver(result.hours_per_week_for_500,
                               Max(500000 - total, 0), days)

\* C22 with the weeks remaining never taken below one: the pace is the hours
\* needed over max(weeks remaining, 1), so with a week or more left it is the
\* quotient, and with less than a week left, none left or today outside the
\* tax year it is the hours needed themselves
C22_AtLeastOneWeek ==
    op = "calculate_material_participation" =>
        LET total == HoursInYear(args.time_entries, args.tax_year)
            days == DaysRemaining(args.tax_year, today)
        IN /\ IsPaceOver(result.hours_per_week_for_100,
                         Max(100000 - total, 0), Max(days, 7))
           /\ IsPaceOver(result.hours_per_week_for_500,
                         Max(500000 - total, 0), Max(days, 7))
           /\ days < 7 =>
                 /\ result.hours_per_week_for_100 = result.test_3_hours_needed
                 /\ result.hours_per_week_for_500 = result.test_1_hours_needed

-----------------------------------------------------------------------------
(* Proforma.  Amounts in this section are whole cents; the percentages      *)
(* cap_rate, cash_on_cash and gross_yield are in hundredths of a percent,   *)
(* dscr in hundredths, expense_ratio and break_even_occ in tenths of a      *)
(* percent; the vacancy rate is a whole number of percent.                  *)

\* property_data.get(key, 0)
GetOr0(property_data, key) ==
    IF key \in DOMAIN property_data THEN property_data[key] ELSE 0

\* (mutant) a zero denominator reported as the full ratio
Ratio_full(num, den, scale) ==
    IF den > 0 THEN RoundHalfEven(num * scale, den)
    ELSE IF den < 0 THEN RoundHalfEven((0 - num) * scale, 0 - den)
    ELSE scale

\* round(num / den ..., k) if den else 0: the quotient in units of 1/scale
Ratio(num, den, scale) ==
    IF den > 0 THEN RoundHalfEven(num * scale, den)
    ELSE IF den < 0 THEN RoundHalfEven((0 - num) * scale, 0 - den)
    ELSE 0

calculate_proforma(property_data, annual_revenue, annual_expenses_dict, vacancy_rate) ==
    LET pp == GetOr0(property_data, "purchase_price")
        total_inv == GetOr0(property_data, "down_payment")
                     + GetOr0(property_data, "closing_costs")
                     + GetOr0(property_data, "furnishing_cost")
                     + GetOr0(property_data, "startup_costs")
        mortgage_yr == GetOr0(property_data, "mortgage_payment") * 12
        prop_tax == GetOr0(property_data, "property_tax_annual")
        ins == GetOr0(property_data, "insurance_annual")
        hoa == GetOr0(property_data, "hoa_monthly") * 12
        gross == annual_revenue
        vacancy == (gross * vacancy_rate) \div 100
        egi == gross - vacancy
        opex == SumOver(DOMAIN annual_expenses_dict, annual_expenses_dict)
                + prop_tax + ins + hoa
        noi == egi - opex
        cash_flow == noi - mortgage_yr
    IN [gross_revenue |-> gross, vacancy_loss |-> vacancy,
        vacancy_rate |-> vacancy_rate,
        effective_gross |-> egi, total_opex |-> opex, noi |-> noi,
        annual_debt_service |-> mortgage_yr, annual_cash_flow |-> cash_flow,
        monthly_cash_flow |-> RoundHalfEven(cash_flow, 12),
        total_investment |-> total_inv,
        cap_rate |-> Ratio(noi, pp, 10000),
        cash_on_cash |-> Ratio(cash_flow, total_inv, 10000),
        dscr |-> Ratio(noi, mortgage_yr, 100),
        gross_yield |-> Ratio(gross, pp, 10000),
        expense_ratio |-> Ratio(opex, egi, 1000),
        break_even_occ |-> Ratio(opex + mortgage_yr, gross, 1000)]

\* a financed property, one with no financial attributes recorded, one bought
\* outright, and one with capital invested but no purchase price recorded
ProformaProperties ==
    {[property_id |-> "prop_001", nickname |-> "Loft",
      purchase_price |-> 10000000, down_payment |-> 2000000,
      closing_costs |-> 300000, furnishing_cost |-> 500000,
      startup_costs |-> 200000, mortgage_payment |-> 5000,
      property_tax_annual |-> 12000, insurance_annual |-> 6000,
      hoa_monthly |-> 100],
     [property_id |-> "prop_002", nickname |-> "Beach"],
     [property_id |-> "prop_003", nickname |-> "Cabin",
      purchase_price |-> 10000000, property_tax_annual |-> 12000],
     [property_id |-> "prop_004", nickname |-> "Yurt",
      down_payment |-> 2000000, mortgage_payment |-> 5000,
      insurance_annual |-> 6000]}

Revenues == {0, 10000, 45000, 90000}
VacancyRates == {0, 25, 50, 100}
ExpenseDicts ==
    {<<>>,
     [name \in {"Cleaning"} |-> 3400],
     [name \in {"Cleaning", "Supplies", "Utilities"} |->
        CASE name = "Cleaning" -> 3400 [] name = "Supplies" -> 1200 [] OTHER -> 2400]}

Proforma ==
    /\ op = "start"
    /\ result' = calculate_proforma(args.property_data, args.annual_revenue,
                                    args.annual_expenses_dict, args.vacancy_rate)
    /\ op' = "calculate_proforma"
    /\ UNCHANGED <<bookings, today, args>>

InitProforma ==
    /\ bookings = <<>>
    /\ today = Mar(2)
    /\ op = "start"
    /\ \E p \in ProformaProperties, r \in Revenues, e \in ExpenseDicts,
          v \in VacancyRates :
          args = [property_data |-> p, annual_revenue |-> r,
                  annual_expenses_dict |-> e, vacancy_rate |-> v]
    /\ result = NoResult

NextProforma == Proforma

SpecProforma == InitProforma /\ [][NextProforma]_vars

\* value is 0 when den is 0, and otherwise num / den in units of 1/scale, to
\* the nearest unit
GuardedQuotient(value, num, den, scale) ==
    IF den = 0 THEN value = 0
    ELSE LET d == IF den > 0 THEN den ELSE 0 - den
             n == IF den > 0 THEN num ELSE 0 - num
         IN /\ (value * d - n * scale) * 2 <= d
            /\ (n * scale - value * d) * 2 <= d

\* C23: every derived ratio of calculate_proforma is 0 when its denominator is
\* zero (cap_rate and gross_yield: purchase price; cash_on_cash: total
\* invested capital; dscr: debt service; expense_ratio: effective gross, also
\* at vacancy rate 1; break_even_occ: gross revenue) and otherwise is its
\* quotient, as a rounded percentage (dscr: a rounded ratio).
C23_GuardedRatios ==
    op = "calculate_proforma" =>
        LET p == args.property_data
            revenue == args.annual_revenue
            purchase_price == GetOr0(p, "purchase_price")
            invested == GetOr0(p, "down_payment") + GetOr0(p, "closing_costs")
                        + GetOr0(p, "furnishing_cost") + GetOr0(p, "startup_costs")
            debt_service == 12 * GetOr0(p, "mortgage_payment")
            effective_gross == revenue - (revenue * args.vacancy_rate) \div 100
            opex == SumOver(DOMAIN args.annual_expenses_dict, args.annual_expenses_dict)
                    + GetOr0(p, "property_tax_annual") + GetOr0(p, "insurance_annual")
                    + 12 * GetOr0(p, "hoa_monthly")
            noi == effective_gross - opex
        IN /\ GuardedQuotient(result.cap_rate, noi, purchase_price, 10000)
           /\ GuardedQuotient(result.gross_yield, revenue, purchase_price, 10000)
           /\ GuardedQuotient(result.cash_on_cash, noi - debt_service, invested, 10000)
           /\ GuardedQuotient(result.dscr, noi, debt_service, 100)
           /\ GuardedQuotient(result.expense_ratio, opex, effective_gross, 1000)
           /\ GuardedQuotient(result.break_even_occ, opex + debt_service, revenue, 1000)
           /\ args.vacancy_rate = 100 => result.expense_ratio = 0

\* revenue at vacancy rate 1 on a property with no purchase price, capital or
\* mortgage recorded: five denominators are zero, the sixth is not
C23_Witness ==
    /\ op = "calculate_proforma"
    /\ args.property_data.property_id = "prop_002"
    /\ args.annual_revenue = 45000 /\ args.vacancy_rate = 100
    /\ DOMAIN args.annual_expenses_dict = {"Cleaning"}
    /\ result.effective_gross = 0 /\ result.total_opex = 3400
    /\ result.cap_rate = 0 /\ result.gross_yield = 0 /\ result.cash_on_cash = 0
    /\ result.dscr = 0 /\ result.expense_ratio = 0
    /\ result.break_even_occ = 76

-----------------------------------------------------------------------------
(* generate_daily_briefing: check-outs and turnovers of today               *)

\* the indices of the non-cancelled bookings that check out on td
CheckOutsOn(bs, td) ==
    {i \in 1 .. Len(bs) : bs[i].status # "cancelled" /\ _parse_date(bs[i].check_out) = td}

\* the actions of one type
ActionsOfType(actions, type) == SelectSeq(actions, LAMBDA a : a.type = type)

\* C24: each non-cancelled booking whose check-out is today emits exactly one
\* high-priority checkout action, and exactly one high-priority turnover
\* action and one turnovers_needed entry iff its cleaner is not confirmed;
\* bookings not checking out today emit no turnover action.
C24_CheckoutAndTurnover ==
    op = "generate_daily_briefing" =>
        LET outs == CheckOutsOn(bookings, today)
            unconfirmed == {i \in outs : ~bookings[i].cleaner_confirmed}
            checkouts == ActionsOfType(result.actions, "checkout")
            turnovers == ActionsOfType(result.actions, "turnover")
            pids == {bookings[i].property_id : i \in 1 .. Len(bookings)}
        IN /\ \A k \in 1 .. Len(checkouts) : checkouts[k].priority = "high"
           /\ \A k \in 1 .. Len(turnovers) : turnovers[k].priority = "high"
           /\ \A a \in {checkouts[k].property_id : k \in 1 .. Len(checkouts)}
                    \cup {turnovers[k].property_id : k \in 1 .. Len(turnovers)} :
                 a \in pids
           /\ \A pid \in pids :
                 /\ Len(SelectSeq(checkouts, LAMBDA a : a.property_id = pid))
                    = Cardinality({i \in outs : bookings[i].property_id = pid})
                 /\ Len(SelectSeq(turnovers, LAMBDA a : a.property_id = pid))
                    = Cardinality({i \in unconfirmed : bookings[i].property_id = pid})
           /\ [k \in 1 .. Len(result.turnovers_needed) |->
                  result.turnovers_needed[k].booking]
              = SelectSeqIdx(bookings, unconfirmed)
           /\ [k \in 1 .. Len(result.check_outs_today) |->
                  result.check_outs_today[k].booking]
              = SelectSeqIdx(bookings, outs)

\* March 3: a stay whose cleaner has confirmed and one whose cleaner has not
\* both check out; two checkout actions, one turnover
C24_Witness ==
    /\ op = "generate_daily_briefing"
    /\ today = Mar(3)
    /\ Len(bookings) = 2
    /\ CheckOutsOn(bookings, today) = {1, 2}
    /\ bookings[1].cleaner_confirmed /\ ~bookings[2].cleaner_confirmed
    /\ Len(ActionsOfType(result.actions, "checkout")) = 2
    /\ Len(ActionsOfType(result.actions, "turnover")) = 1
    /\ Len(result.turnovers_needed) = 1
    /\ result.turnovers_needed[1].booking = bookings[2]

-----------------------------------------------------------------------------
(* get_gap_nights: the gaps and the lookahead window                        *)

\* every gap lies in [td, td + lookahead_days], the gaps are pairwise disjoint
\* and their nights sum to no more than lookahead_days
GapsInWindow(gaps, lookahead_days, td) ==
    /\ \A k \in 1 .. Len(gaps) :
          /\ td <= _parse_date(gaps[k].start)
          /\ _parse_date(gaps[k].start) <= _parse_date(gaps[k].end)
          /\ _parse_date(gaps[k].end) <= td + lookahead_days
          /\ gaps[k].nights = _parse_date(gaps[k].end) - _parse_date(gaps[k].start)
    /\ \A j, k \in 1 .. Len(gaps) :
          j < k => _parse_date(gaps[j].end) <= _parse_date(gaps[k].start)
    /\ SumOver(1 .. Len(gaps), [k \in 1 .. Len(gaps) |-> gaps[k].nights])
       <= lookahead_days

\* C25: every gap reported by get_gap_nights lies inside the lookahead window
\* [today, today + lookahead_days]: no gap ends after the window end, the gaps
\* are pairwise disjoint and their nights sum to at most lookahead_days, also
\* when the ledger holds a booking whose check-in is after the window end.
C25_GapsInWindow ==
    op = "get_gap_nights" => GapsInWindow(result, args.lookahead_days, today)

\* the bookings of the property that the walk visits and that check in after
\* the window end
BeyondWindow(bs, property_id, lookahead_days, td) ==
    {i \in 1 .. Len(bs) :
        /\ bs[i].property_id = property_id /\ bs[i].status # "cancelled"
        /\ _parse_date(bs[i].check_in) # NoDate /\ _parse_date(bs[i].check_out) # NoDate
        /\ _parse_date(bs[i].check_out) > td
        /\ _parse_date(bs[i].check_in) > td + lookahead_days}

\* C25 on the ledgers with no booking of the property checking in after the
\* window end
C25_OnBookingsInsideWindow ==
    (/\ op = "get_gap_nights"
     /\ BeyondWindow(bookings, args.property_id, args.lookahead_days, today) # {})
    \/ C25_GapsInWindow

-----------------------------------------------------------------------------
(* parse_ical over texts that are not well-formed calendars                 *)

MaxLines == 5    \* the most lines in a text handed to parse_ical

\* the lines the texts are made of
LineAlphabet ==
    {BeginLine, EndLine,
     PropLine(<<"DTSTART", "VALUE=DATE">>, DateStr("compact", Mar(1))),
     PropLine(<<"DTSTART", "VALUE=DATE">>, DateStr("compact", Mar(3))),
     PropLine(<<"DTEND", "VALUE=DATE">>, DateStr("compact", Mar(6))),
     PropLine(<<"SUMMARY">>, Text.SUM_OwnerBlock)}

ParseText ==
    /\ op = "start"
    /\ \E r \in {parse_ical(args.lines, args.prop.property_id, args.platform,
                           args.prop.base_nightly_rate, args.prop.cleaning_fee, today)} :
          result' = [bookings |-> r[1], blocked |-> r[2]]
    /\ op' = "parse_ical"
    /\ UNCHANGED <<bookings, today, args>>

InitLines ==
    /\ bookings = <<>>
    /\ today = Mar(2)
    /\ op = "start"
    /\ \E lines \in SeqsUpTo(LineAlphabet, MaxLines) :
          args = [lines |-> lines, prop |-> Prop1, platform |-> Lit.PLAT_Airbnb]
    /\ result = NoResult

NextLines == ParseText

SpecLines == InitLines /\ [][NextLines]_vars

\* the BEGIN:VEVENT that the END:VEVENT at line j closes: the nearest line
\* before j that is a BEGIN or an END, if it is a BEGIN; 0 if there is none
OpenedAt(lines, j) ==
    LET marks == {i \in 1 .. j - 1 : lines[i].kind \in {"begin", "end"}}
    IN IF marks = {} THEN 0
       ELSE LET i == CHOOSE m \in marks : \A n \in marks : n <= m
            IN IF lines[i].kind = "begin" THEN i ELSE 0

\* the key lines strictly between lines i and j, each key with its last value
EventBetween(lines, i, j) ==
    LET at == {k \in i + 1 .. j - 1 : lines[k].kind = "prop"}
    IN [x \in {lines[k].key[1] : k \in at} |->
           lines[CHOOSE k \in at : /\ lines[k].key[1] = x
                                   /\ \A n \in at : lines[n].key[1] = x => n <= k].val]

\* the record due at the END:VEVENT of line j, NoResult if none is
RecordAt(lines, j, prop, platform, td) ==
    IF OpenedAt(lines, j) = 0 THEN NoResult
    ELSE LET event == EventBetween(lines, OpenedAt(lines, j), j)
         IN IF DOMAIN event = {} THEN NoResult
            ELSE _process_ical_event(event, prop.property_id, platform,
                                     prop.base_nightly_rate, prop.cleaning_fee, td)

\* C26: parse_ical emits at most one record per END:VEVENT line, built only
\* from the key lines read since the most recent BEGIN:VEVENT: key lines
\* outside a BEGIN/END pair affect no record, a BEGIN:VEVENT with no matching
\* END:VEVENT yields no record, and a key that repeats inside one event has its
\* last value.
C26_OneRecordPerEnd ==
    (op = "parse_ical" /\ "lines" \in DOMAIN args) =>
        LET lines == args.lines
            due == {j \in 1 .. Len(lines) :
                       /\ lines[j].kind = "end"
                       /\ RecordAt(lines, j, args.prop, args.platform, today) # NoResult}
            records == [j \in due |-> RecordAt(lines, j, args.prop, args.platform, today)]
            blocks == {j \in due : "_blocked" \in DOMAIN records[j]}
            stays == due \ blocks
            ends == {j \in 1 .. Len(lines) : lines[j].kind = "end"}
        IN /\ Len(result.bookings) + Len(result.blocked) <= Cardinality(ends)
           /\ Len(result.bookings) = Cardinality(stays)
           /\ Len(result.blocked) = Cardinality(blocks)
           /\ \A k \in 1 .. Len(result.bookings) :
                 \E j \in stays : /\ Cardinality({i \in stays : i <= j}) = k
                                  /\ result.bookings[k] = records[j]
           /\ \A k \in 1 .. Len(result.blocked) :
                 \E j \in blocks : /\ Cardinality({i \in blocks : i <= j}) = k
                                   /\ result.blocked[k] = records[j]

\* DTSTART twice inside the event (March 1, then March 3): the booking begins
\* on March 3
C26_Witness ==
    /\ op = "parse_ical" /\ "lines" \in DOMAIN args
    /\ args.lines = <<BeginLine,
                      PropLine(<<"DTSTART", "VALUE=DATE">>, DateStr("compact", Mar(1))),
                      PropLine(<<"DTSTART", "VALUE=DATE">>, DateStr("compact", Mar(3))),
                      PropLine(<<"DTEND", "VALUE=DATE">>, DateStr("compact", Mar(6))),
                      EndLine>>
    /\ Len(result.bookings) = 1 /\ result.blocked = <<>>
    /\ result.bookings[1].check_in = isoformat(Mar(3))
    /\ result.bookings[1].check_out = isoformat(Mar(6))

-----------------------------------------------------------------------------
(* calculate_material_participation: the three outputs of a test            *)

\* met iff hours needed is 0 iff the percentage is 100
OutputsAgree(met, needed, pct) ==
    /\ met <=> needed = 0
    /\ met <=> pct = 1000

\* C27: the three outputs of each participation test agree for every total of
\* logged hours, also a total within rounding distance of the threshold:
\* test_3_met iff test_3_hours_needed is 0 iff test_3_pct is 100, and likewise
\* test_1 with the 500-hour threshold.
C27_OutputsAgree ==
    op = "calculate_material_participation" =>
        /\ OutputsAgree(result.test_3_met, result.test_3_hours_needed, result.test_3_pct)
        /\ OutputsAgree(result.test_1_met, result.test_1_hours_needed, result.test_1_pct)

\* total (thousandths of an hour) reaches T hours or stays under 99.95 % of T
AwayFromThreshold(total, T) == total >= T * 1000 \/ total * 2 < T * 1999

\* C27 for the totals that are not within rounding distance of the threshold;
\* for every total, a test that is met has 0 hours needed and 100 percent
C27_AwayFromThreshold ==
    op = "calculate_material_participation" =>
        LET total == HoursInYear(args.time_entries, args.tax_year)
        IN /\ AwayFromThreshold(total, 100) =>
                 OutputsAgree(result.test_3_met, result.test_3_hours_needed,
                              result.test_3_pct)
           /\ AwayFromThreshold(total, 500) =>
                 OutputsAgree(result.test_1_met, result.test_1_hours_needed,
                              result.test_1_pct)
           /\ result.test_3_met =>
                 result.test_3_hours_needed = 0 /\ result.test_3_pct = 1000
           /\ result.test_1_met =>
                 result.test_1_hours_needed = 0 /\ result.test_1_pct = 1000

-----------------------------------------------------------------------------
(* The import handlers and the ledger                                       *)

ImportOps == {"import_url", "import_paste"}

\* the ledger bookings with the key of b
SharingKey(ledger, key) ==
    Cardinality({i \in 1 .. Len(ledger) : ExistingKey(ledger[i]) = key})

\* C28: across any sequence of iCal imports, the number of ledger bookings
\* sharing one (property_id, check_in, check_out) key never grows beyond what
\* it was before the import or 1, whichever is larger, and for each import
\* len(unique) + the duplicate count is the number of candidate bookings
\* parsed.  Stated for every import step, from every ledger the session can
\* reach, so for every sequence of imports.
C28_KeysNotMultiplied ==
    [][op' \in ImportOps =>
         /\ \A key \in {ExistingKey(bookings'[i]) : i \in 1 .. Len(bookings')} :
               SharingKey(bookings', key) <= Max(SharingKey(bookings, key), 1)
         /\ result'.imported + result'.dupes = result'.parsed
         /\ Len(bookings') = Len(bookings) + result'.imported]_vars

\* a feed with the same stay twice, imported for a property the ledger has no
\* booking of: one is appended, the other is skipped as a duplicate
C28_Witness ==
    /\ op \in ImportOps
    /\ result.parsed = 2 /\ result.imported = 1 /\ result.dupes = 1
    /\ Len(bookings) = 2
    /\ ExistingKey(bookings[1]) # ExistingKey(bookings[2])

\* C29: deduplication ignores the booking status: a cancelled ledger booking
\* still blocks the import of a feed booking with the same (property_id,
\* check_in, check_out), so once a stay is cancelled in the ledger no later
\* import adds a booking for its key.
C29_CancelledStillBlocks ==
    [][op' \in ImportOps =>
         \A i \in 1 .. Len(bookings) :
            bookings[i].status = "cancelled" =>
               SharingKey(bookings', ExistingKey(bookings[i]))
               = SharingKey(bookings, ExistingKey(bookings[i]))]_vars

\* the ledger holds one booking, cancelled; a feed with a stay of the same
\* property and dates has just been imported: parsed 1, skipped 1, added none
C29_Witness ==
    /\ op \in ImportOps
    /\ Len(bookings) = 1
    /\ bookings[1].status = "cancelled"
    /\ bookings[1].property_id = "prop_001"
    /\ bookings[1].check_in = isoformat(Mar(1)) /\ bookings[1].check_out = isoformat(Mar(3))
    /\ result.error = "" /\ result.parsed = 1 /\ result.dupes = 1 /\ result.imported = 0

\* what the text handed to the handler begins with makes the import fail: a
\* failure value of the fetch, or no calendar marker
FailedImport(head) == head = "ERROR:" \/ head # "BEGIN:VCALENDAR"

\* C30: a failed import leaves the booking ledger unchanged: when the fetch
\* returns a failure value, or the fetched or pasted text holds no calendar
\* marker, the import reports an error, parses nothing and appends, removes
\* and modifies no ledger booking.
C30_FailedImportFrame ==
    [][(op' \in ImportOps /\ FailedImport(args')) =>
         /\ result'.error # ""
         /\ result'.parsed = 0 /\ result'.blocked = 0
         /\ result'.imported = 0 /\ result'.dupes = 0
         /\ bookings' = bookings]_vars

\* events pasted without the calendar around them, into a ledger of one
\* booking: an error is reported and the ledger still holds that one booking
C30_Witness ==
    /\ op = "import_paste"
    /\ args = "BEGIN:VEVENT"
    /\ result.error = "Invalid iCal data"
    /\ result.parsed = 0 /\ result.imported = 0
    /\ Len(bookings) = 1 /\ bookings[1].status = "cancelled"

====
